---- MODULE Spec2Model ----
(***************************************************************************)
(* Brenton LXX error finder: the word-matching and variant-classification  *)
(* engine of check_missing_words.py, its variation patterns                *)
(* (valid_variation_patterns.py) and its book reference converter          *)
(* (book_code_mappings.py).                                                *)
(*                                                                         *)
(* A Python str is a sequence of one-character strings (a character the    *)
(* lexer does not take is written by its code point, "U1F00" for U+1F00);  *)
(* a Python dict is the sequence of its <<key, value>> items in insertion  *)
(* order; a Python set is a set.  A similarity ratio 2.0*M/T is the pair   *)
(* [num, den] of its exact numerator and denominator and is compared by    *)
(* cross-multiplying.                                                      *)
(***************************************************************************)
EXTENDS Integers, Sequences, FiniteSets, TLC

(***************************************************************************)
(* Unicode tables (unicodedata): the base letter left by NFD decomposition *)
(* with the combining marks (category Mn) removed, and str.lower().        *)
(***************************************************************************)
DecomposedBase ==
    ("Ά" :> "Α") @@ ("Έ" :> "Ε") @@ ("Ή" :> "Η") @@ ("Ί" :> "Ι") @@ ("Ό" :> "Ο")
    @@ ("Ύ" :> "Υ") @@ ("Ώ" :> "Ω") @@ ("ΐ" :> "ι") @@ ("Ϊ" :> "Ι") @@ ("Ϋ" :> "Υ")
    @@ ("ά" :> "α") @@ ("έ" :> "ε") @@ ("ή" :> "η") @@ ("ί" :> "ι") @@ ("ΰ" :> "υ")
    @@ ("ϊ" :> "ι") @@ ("ϋ" :> "υ") @@ ("ό" :> "ο") @@ ("ύ" :> "υ") @@ ("ώ" :> "ω")
    @@ ("ϓ" :> "ϒ") @@ ("ϔ" :> "ϒ") @@ ("U1F00" :> "α") @@ ("U1F01" :> "α") @@ ("U1F02" :> "α")
    @@ ("U1F03" :> "α") @@ ("U1F04" :> "α") @@ ("U1F05" :> "α") @@ ("U1F06" :> "α") @@ ("U1F07" :> "α")
    @@ ("U1F08" :> "Α") @@ ("U1F09" :> "Α") @@ ("U1F0A" :> "Α") @@ ("U1F0B" :> "Α") @@ ("U1F0C" :> "Α")
    @@ ("U1F0D" :> "Α") @@ ("U1F0E" :> "Α") @@ ("U1F0F" :> "Α") @@ ("U1F10" :> "ε") @@ ("U1F11" :> "ε")
    @@ ("U1F12" :> "ε") @@ ("U1F13" :> "ε") @@ ("U1F14" :> "ε") @@ ("U1F15" :> "ε") @@ ("U1F18" :> "Ε")
    @@ ("U1F19" :> "Ε") @@ ("U1F1A" :> "Ε") @@ ("U1F1B" :> "Ε") @@ ("U1F1C" :> "Ε") @@ ("U1F1D" :> "Ε")
    @@ ("U1F20" :> "η") @@ ("U1F21" :> "η") @@ ("U1F22" :> "η") @@ ("U1F23" :> "η") @@ ("U1F24" :> "η")
    @@ ("U1F25" :> "η") @@ ("U1F26" :> "η") @@ ("U1F27" :> "η") @@ ("U1F28" :> "Η") @@ ("U1F29" :> "Η")
    @@ ("U1F2A" :> "Η") @@ ("U1F2B" :> "Η") @@ ("U1F2C" :> "Η") @@ ("U1F2D" :> "Η") @@ ("U1F2E" :> "Η")
    @@ ("U1F2F" :> "Η") @@ ("U1F30" :> "ι") @@ ("U1F31" :> "ι") @@ ("U1F32" :> "ι") @@ ("U1F33" :> "ι")
    @@ ("U1F34" :> "ι") @@ ("U1F35" :> "ι") @@ ("U1F36" :> "ι") @@ ("U1F37" :> "ι") @@ ("U1F38" :> "Ι")
    @@ ("U1F39" :> "Ι") @@ ("U1F3A" :> "Ι") @@ ("U1F3B" :> "Ι") @@ ("U1F3C" :> "Ι") @@ ("U1F3D" :> "Ι")
    @@ ("U1F3E" :> "Ι") @@ ("U1F3F" :> "Ι") @@ ("U1F40" :> "ο") @@ ("U1F41" :> "ο") @@ ("U1F42" :> "ο")
    @@ ("U1F43" :> "ο") @@ ("U1F44" :> "ο") @@ ("U1F45" :> "ο") @@ ("U1F48" :> "Ο") @@ ("U1F49" :> "Ο")
    @@ ("U1F4A" :> "Ο") @@ ("U1F4B" :> "Ο") @@ ("U1F4C" :> "Ο") @@ ("U1F4D" :> "Ο") @@ ("U1F50" :> "υ")
    @@ ("U1F51" :> "υ") @@ ("U1F52" :> "υ") @@ ("U1F53" :> "υ") @@ ("U1F54" :> "υ") @@ ("U1F55" :> "υ")
    @@ ("U1F56" :> "υ") @@ ("U1F57" :> "υ") @@ ("U1F59" :> "Υ") @@ ("U1F5B" :> "Υ") @@ ("U1F5D" :> "Υ")
    @@ ("U1F5F" :> "Υ") @@ ("U1F60" :> "ω") @@ ("U1F61" :> "ω") @@ ("U1F62" :> "ω") @@ ("U1F63" :> "ω")
    @@ ("U1F64" :> "ω") @@ ("U1F65" :> "ω") @@ ("U1F66" :> "ω") @@ ("U1F67" :> "ω") @@ ("U1F68" :> "Ω")
    @@ ("U1F69" :> "Ω") @@ ("U1F6A" :> "Ω") @@ ("U1F6B" :> "Ω") @@ ("U1F6C" :> "Ω") @@ ("U1F6D" :> "Ω")
    @@ ("U1F6E" :> "Ω") @@ ("U1F6F" :> "Ω") @@ ("U1F70" :> "α") @@ ("U1F72" :> "ε") @@ ("U1F74" :> "η")
    @@ ("U1F76" :> "ι") @@ ("U1F78" :> "ο") @@ ("U1F7A" :> "υ") @@ ("U1F7C" :> "ω") @@ ("ᾀ" :> "α")
    @@ ("ᾁ" :> "α") @@ ("ᾂ" :> "α") @@ ("ᾃ" :> "α") @@ ("ᾄ" :> "α") @@ ("ᾅ" :> "α")
    @@ ("ᾆ" :> "α") @@ ("ᾇ" :> "α") @@ ("ᾈ" :> "Α") @@ ("ᾉ" :> "Α") @@ ("ᾊ" :> "Α")
    @@ ("ᾋ" :> "Α") @@ ("ᾌ" :> "Α") @@ ("ᾍ" :> "Α") @@ ("ᾎ" :> "Α") @@ ("ᾏ" :> "Α")
    @@ ("ᾐ" :> "η") @@ ("ᾑ" :> "η") @@ ("ᾒ" :> "η") @@ ("ᾓ" :> "η") @@ ("ᾔ" :> "η")
    @@ ("ᾕ" :> "η") @@ ("ᾖ" :> "η") @@ ("ᾗ" :> "η") @@ ("ᾘ" :> "Η") @@ ("ᾙ" :> "Η")
    @@ ("ᾚ" :> "Η") @@ ("ᾛ" :> "Η") @@ ("ᾜ" :> "Η") @@ ("ᾝ" :> "Η") @@ ("ᾞ" :> "Η")
    @@ ("ᾟ" :> "Η") @@ ("ᾠ" :> "ω") @@ ("ᾡ" :> "ω") @@ ("ᾢ" :> "ω") @@ ("ᾣ" :> "ω")
    @@ ("ᾤ" :> "ω") @@ ("ᾥ" :> "ω") @@ ("ᾦ" :> "ω") @@ ("ᾧ" :> "ω") @@ ("ᾨ" :> "Ω")
    @@ ("ᾩ" :> "Ω") @@ ("ᾪ" :> "Ω") @@ ("ᾫ" :> "Ω") @@ ("ᾬ" :> "Ω") @@ ("ᾭ" :> "Ω")
    @@ ("ᾮ" :> "Ω") @@ ("ᾯ" :> "Ω") @@ ("ᾰ" :> "α") @@ ("ᾱ" :> "α") @@ ("ᾲ" :> "α")
    @@ ("ᾳ" :> "α") @@ ("ᾴ" :> "α") @@ ("ᾶ" :> "α") @@ ("ᾷ" :> "α") @@ ("Ᾰ" :> "Α")
    @@ ("Ᾱ" :> "Α") @@ ("Ὰ" :> "Α") @@ ("ᾼ" :> "Α") @@ ("ῂ" :> "η") @@ ("ῃ" :> "η")
    @@ ("ῄ" :> "η") @@ ("ῆ" :> "η") @@ ("ῇ" :> "η") @@ ("Ὲ" :> "Ε") @@ ("Ὴ" :> "Η")
    @@ ("ῌ" :> "Η") @@ ("ῐ" :> "ι") @@ ("ῑ" :> "ι") @@ ("ῒ" :> "ι") @@ ("ῖ" :> "ι")
    @@ ("ῗ" :> "ι") @@ ("Ῐ" :> "Ι") @@ ("Ῑ" :> "Ι") @@ ("Ὶ" :> "Ι") @@ ("ῠ" :> "υ")
    @@ ("ῡ" :> "υ") @@ ("ῢ" :> "υ") @@ ("ῤ" :> "ρ") @@ ("ῥ" :> "ρ") @@ ("ῦ" :> "υ")
    @@ ("ῧ" :> "υ") @@ ("Ῠ" :> "Υ") @@ ("Ῡ" :> "Υ") @@ ("Ὺ" :> "Υ") @@ ("Ῥ" :> "Ρ")
    @@ ("ῲ" :> "ω") @@ ("ῳ" :> "ω") @@ ("ῴ" :> "ω") @@ ("ῶ" :> "ω") @@ ("ῷ" :> "ω")
    @@ ("Ὸ" :> "Ο") @@ ("Ὼ" :> "Ω") @@ ("ῼ" :> "Ω")

LowerCase ==
    ("U0370" :> "U0371") @@ ("U0372" :> "U0373") @@ ("U0376" :> "U0377") @@ ("U037F" :> "ϳ") @@ ("Ά" :> "ά")
    @@ ("Έ" :> "έ") @@ ("Ή" :> "ή") @@ ("Ί" :> "ί") @@ ("Ό" :> "ό") @@ ("Ύ" :> "ύ")
    @@ ("Ώ" :> "ώ") @@ ("Α" :> "α") @@ ("Β" :> "β") @@ ("Γ" :> "γ") @@ ("Δ" :> "δ")
    @@ ("Ε" :> "ε") @@ ("Ζ" :> "ζ") @@ ("Η" :> "η") @@ ("Θ" :> "θ") @@ ("Ι" :> "ι")
    @@ ("Κ" :> "κ") @@ ("Λ" :> "λ") @@ ("Μ" :> "μ") @@ ("Ν" :> "ν") @@ ("Ξ" :> "ξ")
    @@ ("Ο" :> "ο") @@ ("Π" :> "π") @@ ("Ρ" :> "ρ") @@ ("Σ" :> "σ") @@ ("Τ" :> "τ")
    @@ ("Υ" :> "υ") @@ ("Φ" :> "φ") @@ ("Χ" :> "χ") @@ ("Ψ" :> "ψ") @@ ("Ω" :> "ω")
    @@ ("Ϊ" :> "ϊ") @@ ("Ϋ" :> "ϋ") @@ ("Ϗ" :> "ϗ") @@ ("Ϙ" :> "ϙ") @@ ("Ϛ" :> "ϛ")
    @@ ("Ϝ" :> "ϝ") @@ ("Ϟ" :> "ϟ") @@ ("Ϡ" :> "ϡ") @@ ("Ϣ" :> "ϣ") @@ ("Ϥ" :> "ϥ")
    @@ ("Ϧ" :> "ϧ") @@ ("Ϩ" :> "ϩ") @@ ("Ϫ" :> "ϫ") @@ ("Ϭ" :> "ϭ") @@ ("Ϯ" :> "ϯ")
    @@ ("ϴ" :> "θ") @@ ("Ϸ" :> "ϸ") @@ ("Ϲ" :> "ϲ") @@ ("Ϻ" :> "ϻ") @@ ("Ͻ" :> "U037B")
    @@ ("Ͼ" :> "U037C") @@ ("Ͽ" :> "U037D") @@ ("U1F08" :> "U1F00") @@ ("U1F09" :> "U1F01") @@ ("U1F0A" :> "U1F02")
    @@ ("U1F0B" :> "U1F03") @@ ("U1F0C" :> "U1F04") @@ ("U1F0D" :> "U1F05") @@ ("U1F0E" :> "U1F06") @@ ("U1F0F" :> "U1F07")
    @@ ("U1F18" :> "U1F10") @@ ("U1F19" :> "U1F11") @@ ("U1F1A" :> "U1F12") @@ ("U1F1B" :> "U1F13") @@ ("U1F1C" :> "U1F14")
    @@ ("U1F1D" :> "U1F15") @@ ("U1F28" :> "U1F20") @@ ("U1F29" :> "U1F21") @@ ("U1F2A" :> "U1F22") @@ ("U1F2B" :> "U1F23")
    @@ ("U1F2C" :> "U1F24") @@ ("U1F2D" :> "U1F25") @@ ("U1F2E" :> "U1F26") @@ ("U1F2F" :> "U1F27") @@ ("U1F38" :> "U1F30")
    @@ ("U1F39" :> "U1F31") @@ ("U1F3A" :> "U1F32") @@ ("U1F3B" :> "U1F33") @@ ("U1F3C" :> "U1F34") @@ ("U1F3D" :> "U1F35")
    @@ ("U1F3E" :> "U1F36") @@ ("U1F3F" :> "U1F37") @@ ("U1F48" :> "U1F40") @@ ("U1F49" :> "U1F41") @@ ("U1F4A" :> "U1F42")
    @@ ("U1F4B" :> "U1F43") @@ ("U1F4C" :> "U1F44") @@ ("U1F4D" :> "U1F45") @@ ("U1F59" :> "U1F51") @@ ("U1F5B" :> "U1F53")
    @@ ("U1F5D" :> "U1F55") @@ ("U1F5F" :> "U1F57") @@ ("U1F68" :> "U1F60") @@ ("U1F69" :> "U1F61") @@ ("U1F6A" :> "U1F62")
    @@ ("U1F6B" :> "U1F63") @@ ("U1F6C" :> "U1F64") @@ ("U1F6D" :> "U1F65") @@ ("U1F6E" :> "U1F66") @@ ("U1F6F" :> "U1F67")
    @@ ("ᾈ" :> "ᾀ") @@ ("ᾉ" :> "ᾁ") @@ ("ᾊ" :> "ᾂ") @@ ("ᾋ" :> "ᾃ") @@ ("ᾌ" :> "ᾄ")
    @@ ("ᾍ" :> "ᾅ") @@ ("ᾎ" :> "ᾆ") @@ ("ᾏ" :> "ᾇ") @@ ("ᾘ" :> "ᾐ") @@ ("ᾙ" :> "ᾑ")
    @@ ("ᾚ" :> "ᾒ") @@ ("ᾛ" :> "ᾓ") @@ ("ᾜ" :> "ᾔ") @@ ("ᾝ" :> "ᾕ") @@ ("ᾞ" :> "ᾖ")
    @@ ("ᾟ" :> "ᾗ") @@ ("ᾨ" :> "ᾠ") @@ ("ᾩ" :> "ᾡ") @@ ("ᾪ" :> "ᾢ") @@ ("ᾫ" :> "ᾣ")
    @@ ("ᾬ" :> "ᾤ") @@ ("ᾭ" :> "ᾥ") @@ ("ᾮ" :> "ᾦ") @@ ("ᾯ" :> "ᾧ") @@ ("Ᾰ" :> "ᾰ")
    @@ ("Ᾱ" :> "ᾱ") @@ ("Ὰ" :> "U1F70") @@ ("ᾼ" :> "ᾳ") @@ ("Ὲ" :> "U1F72") @@ ("Ὴ" :> "U1F74")
    @@ ("ῌ" :> "ῃ") @@ ("Ῐ" :> "ῐ") @@ ("Ῑ" :> "ῑ") @@ ("Ὶ" :> "U1F76") @@ ("Ῠ" :> "ῠ")
    @@ ("Ῡ" :> "ῡ") @@ ("Ὺ" :> "U1F7A") @@ ("Ῥ" :> "ῥ") @@ ("Ὸ" :> "U1F78") @@ ("Ὼ" :> "U1F7C")
    @@ ("ῼ" :> "ῳ")

Base(c) == IF c \in DOMAIN DecomposedBase THEN DecomposedBase[c] ELSE c

\* str.lower(): Σ becomes ς at the end of a word (after a cased letter and
\* before none), σ elsewhere.
lower(text) ==
    [i \in 1..Len(text) |->
        IF text[i] = "Σ" /\ i = Len(text) /\ i > 1 THEN "ς"
        ELSE IF text[i] \in DOMAIN LowerCase THEN LowerCase[text[i]]
        ELSE text[i]]

strip_accents(text) == [i \in 1..Len(text) |-> Base(text[i])]

normalize_text(text) == text

strip_diacritics(text) == [i \in 1..Len(text) |-> Base(normalize_text(text)[i])]

(***************************************************************************)
(* str primitives: `p in s`, s.endswith(p), s.replace(old, new).           *)
(***************************************************************************)
MatchAt(s, p, i) ==
    /\ i + Len(p) - 1 <= Len(s)
    /\ \A k \in 1..Len(p) : s[i + k - 1] = p[k]

Contains(s, p) == \E i \in 1..(Len(s) - Len(p) + 1) : MatchAt(s, p, i)

EndsWith(s, p) == Len(p) <= Len(s) /\ MatchAt(s, p, Len(s) - Len(p) + 1)

RECURSIVE ReplaceFrom(_, _, _, _)
ReplaceFrom(s, old, new, i) ==
    IF i > Len(s) THEN <<>>
    ELSE IF MatchAt(s, old, i) THEN new \o ReplaceFrom(s, old, new, i + Len(old))
    ELSE <<s[i]>> \o ReplaceFrom(s, old, new, i + 1)

Replace(s, old, new) == ReplaceFrom(s, old, new, 1)

(***************************************************************************)
(* valid_variation_patterns.py: the pattern tables.                        *)
(***************************************************************************)
LAMBDA_FUTURE_PATTERNS ==
    << <<<<"λ", "ή", "ψ">>, <<"λ", "η", "μ", "ψ">>>>,
       <<<<"λ", "ή", "ψ">>, <<"λ", "ή", "μ", "ψ">>>>,
       <<<<"λ", "η", "ψ">>, <<"λ", "η", "μ", "ψ">>>> >>

LAMBDA_COMPOUNDS ==
    << <<"U1F00", "ν", "α", "λ", "ή", "ψ">>,
       <<"U1F00", "ν", "α", "λ", "η", "μ", "ψ">>,
       <<"U1F00", "ν", "τ", "ι", "λ", "ή", "ψ">>,
       <<"U1F00", "ν", "τ", "ι", "λ", "η", "μ", "ψ">>,
       <<"U1F10", "π", "ι", "λ", "ή", "ψ">>,
       <<"U1F10", "π", "ι", "λ", "η", "μ", "ψ">>,
       <<"κ", "α", "τ", "α", "λ", "ή", "ψ">>,
       <<"κ", "α", "τ", "α", "λ", "η", "μ", "ψ">>,
       <<"μ", "ε", "τ", "α", "λ", "ή", "ψ">>,
       <<"μ", "ε", "τ", "α", "λ", "η", "μ", "ψ">>,
       <<"π", "α", "ρ", "α", "λ", "ή", "ψ">>,
       <<"π", "α", "ρ", "α", "λ", "η", "μ", "ψ">>,
       <<"π", "ε", "ρ", "ι", "λ", "ή", "ψ">>,
       <<"π", "ε", "ρ", "ι", "λ", "η", "μ", "ψ">>,
       <<"π", "ρ", "ο", "κ", "α", "τ", "α", "λ", "ή", "ψ">>,
       <<"π", "ρ", "ο", "κ", "α", "τ", "α", "λ", "η", "μ", "ψ">>,
       <<"π", "ρ", "ο", "λ", "ή", "ψ">>,
       <<"π", "ρ", "ο", "λ", "η", "μ", "ψ">>,
       <<"σ", "υ", "λ", "λ", "ή", "ψ">>,
       <<"σ", "υ", "λ", "λ", "η", "μ", "ψ">>,
       <<"σ", "υ", "μ", "π", "α", "ρ", "α", "λ", "ή", "ψ">>,
       <<"σ", "υ", "μ", "π", "α", "ρ", "α", "λ", "η", "μ", "ψ">>,
       <<"σ", "υ", "μ", "π", "ε", "ρ", "ι", "λ", "ή", "ψ">>,
       <<"σ", "υ", "μ", "π", "ε", "ρ", "ι", "λ", "η", "μ", "ψ">>,
       <<"σ", "υ", "ν", "α", "ν", "τ", "ι", "λ", "ή", "ψ">>,
       <<"σ", "υ", "ν", "α", "ν", "τ", "ι", "λ", "η", "μ", "ψ">>,
       <<"U1F51", "π", "ο", "λ", "ή", "ψ">>,
       <<"U1F51", "π", "ο", "λ", "η", "μ", "ψ">> >>

AORIST_PASSIVE_LAMBDA ==
    << <<<<"λ", "η", "φ", "θ">>, <<"λ", "η", "μ", "φ", "θ">>>>,
       <<<<"λ", "ή", "φ", "θ">>, <<"λ", "ή", "μ", "φ", "θ">>>>,
       <<<<"λ", "η", "ψ", "θ">>, <<"λ", "η", "μ", "ψ", "θ">>>> >>

DESTRUCTION_VERB_VARIATIONS ==
    << <<<<"ο", "λ", "ο", "θ", "ρ">>, <<"ο", "λ", "ε", "θ", "ρ">>>>,
       <<<<"ο", "λ", "ο", "θ", "ρ", "ε", "υ">>, <<"ο", "λ", "ε", "θ", "ρ", "ε", "υ">>>>,
       <<<<"ξ", "ο", "λ", "ο", "θ", "ρ">>, <<"ξ", "ο", "λ", "ε", "θ", "ρ">>>>,
       <<<<"ξ", "ω", "λ", "ο", "θ", "ρ">>, <<"ξ", "ω", "λ", "ε", "θ", "ρ">>>> >>

LOAN_VERB_VARIATIONS ==
    << <<<<"δ", "α", "ν", "ε">>, <<"δ", "α", "ν", "ι">>>>,
       <<<<"δ", "α", "ν", "ε", "ι", "ζ">>, <<"δ", "α", "ν", "ι", "ζ">>>>,
       <<<<"δ", "α", "ν", "ε", "ι", "σ">>, <<"δ", "α", "ν", "ι", "σ">>>> >>

GENERATION_VARIATIONS ==
    << <<<<"γ", "ε", "ν", "ν", "η", "μ">>, <<"γ", "ε", "ν", "η", "μ">>>>,
       <<<<"γ", "ε", "ν", "ν", "η", "μ", "α", "τ">>, <<"γ", "ε", "ν", "η", "μ", "α", "τ">>>>,
       <<<<"ε", "ν", "ν", "η", "μ">>, <<"ε", "ν", "η", "μ">>>> >>

COMMAND_VERB_VARIATIONS ==
    << <<<<"U1F10", "ν", "τ", "ε", "λ", "λ">>, <<"U1F00", "ν", "τ", "ε", "λ", "λ">>>>,
       <<<<"U1F10", "ν", "τ", "ε", "λ">>, <<"U1F10", "ν", "τ", "λ">>>> >>

CIRCUMCISION_VARIATIONS ==
    << <<<<"π", "ε", "ρ", "ι", "τ", "ε", "μ", "ε", "σ", "θ">>, <<"π", "ε", "ρ", "ι", "τ", "ε", "μ", "ν", "ε", "σ", "θ">>>>,
       <<<<"π", "ε", "ρ", "ι", "τ", "ε", "μ", "ε">>, <<"π", "ε", "ρ", "ι", "τ", "ε", "μ", "ν", "ε">>>> >>

VOWEL_CONTRACTIONS ==
    << <<<<"ε", "ω">>, <<"ω">>>>,
       <<<<"ο", "ε">>, <<"ο", "υ">>>>,
       <<<<"α", "ε">>, <<"α">>>>,
       <<<<"α", "ο">>, <<"ω">>>>,
       <<<<"ε", "ε">>, <<"ε", "ι">>>> >>

DIPHTHONG_VARIATIONS ==
    << <<<<"ε", "ι">>, <<"ι">>>>,
       <<<<"ο", "ι">>, <<"υ">>>>,
       <<<<"α", "ι">>, <<"ε">>>> >>

ABLAUT_VARIATIONS ==
    << <<<<"ε">>, <<"η">>>>,
       <<<<"ο">>, <<"ω">>>>,
       <<<<"α">>, <<"η">>>> >>

AORIST_VOWEL_VARIATIONS ==
    << <<<<"φ", "ε", "ι", "λ">>, <<"φ", "η", "λ">>>>,
       <<<<"ε", "ι", "λ">>, <<"η", "λ">>>> >>

AORIST_CONSONANT_VARIATIONS ==
    << <<<<"θ", "η">>, <<"σ", "η">>>> >>

COMPOUND_PREFIX_VARIATIONS ==
    << <<<<"π", "ρ", "ο", "σ">>, <<"π", "ρ", "ο">>>>,
       <<<<"κ", "α", "τ", "α">>, <<"κ", "α", "τ">>, <<"κ", "α", "θ">>>>,
       <<<<"U1F00", "π", "ο">>, <<"U1F00", "π">>, <<"U1F00", "φ">>>>,
       <<<<"U1F10", "π", "ι">>, <<"U1F10", "π">>, <<"U1F10", "φ">>>>,
       <<<<"σ", "υ", "ν">>, <<"σ", "υ">>, <<"σ", "υ", "μ">>>> >>

PARTICIPLE_VARIATIONS ==
    << <<<<"ο", "υ", "σ">>, <<"ο", "ν", "τ">>>>,
       <<<<"ω", "ν">>, <<"ο", "ν", "τ">>>>,
       <<<<"ο", "μ", "ε", "ν">>, <<"ω", "μ", "ε", "ν">>>> >>

DIALECTAL_LETTER_VARIATIONS ==
    << <<<<"ρ", "ρ">>, <<"ρ">>>>,
       <<<<"λ", "λ">>, <<"λ">>>>,
       <<<<"σ", "σ">>, <<"σ">>>>,
       <<<<"τ", "τ">>, <<"τ">>>> >>

(***************************************************************************)
(* generate_variation_list: one pass per pattern table over the forms      *)
(* accumulated so far; every form is kept and each rule is applied to it   *)
(* in both directions.                                                     *)
(***************************************************************************)
PairForms(var, p1, p2) ==
    (IF Contains(var, p1) THEN {Replace(var, p1, p2)} ELSE {})
    \cup (IF Contains(var, p2) THEN {Replace(var, p2, p1)} ELSE {})

\* a faulty variant: the forms a loop has just produced are expanded again by
\* the same loop
PairPassTwice(current_variations, patterns) ==
    UNION { {var} \cup UNION { PairForms(var, patterns[k][1], patterns[k][2]) :
                                 k \in DOMAIN patterns }
            : var \in UNION { {v} \cup UNION { PairForms(v, patterns[k][1], patterns[k][2]) :
                                                k \in DOMAIN patterns }
                              : v \in current_variations } }

PairPass(current_variations, patterns) ==
    UNION { {var} \cup UNION { PairForms(var, patterns[k][1], patterns[k][2]) :
                                 k \in DOMAIN patterns }
            : var \in current_variations }

LambdaCompoundPass(current_variations) ==
    UNION { {var} \cup UNION { PairForms(var, LAMBDA_COMPOUNDS[2 * j - 1], LAMBDA_COMPOUNDS[2 * j]) :
                                 j \in 1..(Len(LAMBDA_COMPOUNDS) \div 2) }
            : var \in current_variations }

PrefixForms(var, prefix_group) ==
    IF Len(prefix_group) = 2
    THEN PairForms(var, prefix_group[1], prefix_group[2])
    ELSE IF Len(prefix_group) = 3
    THEN UNION { IF Contains(var, prefix_group[a])
                 THEN { Replace(var, prefix_group[a], prefix_group[b]) :
                          b \in (1..3) \ {a} }
                 ELSE {}
                 : a \in 1..3 }
    ELSE {}

CompoundPrefixPass(current_variations) ==
    UNION { {var} \cup UNION { PrefixForms(var, COMPOUND_PREFIX_VARIATIONS[k]) :
                                 k \in DOMAIN COMPOUND_PREFIX_VARIATIONS }
            : var \in current_variations }

\* a faulty variant: the nu is only added, never taken away
MovableNuAdded(current_variations) ==
    current_variations
    \cup UNION { IF EndsWith(var, <<"ε">>) \/ EndsWith(var, <<"ι">>)
                 THEN {Append(var, "ν")} ELSE {}
                 : var \in current_variations }

MovableNu(current_variations) ==
    current_variations
    \cup UNION { IF EndsWith(var, <<"ε">>) \/ EndsWith(var, <<"ι">>)
                 THEN {Append(var, "ν")}
                 ELSE IF EndsWith(var, <<"ε", "ν">>) \/ EndsWith(var, <<"ι", "ν">>)
                 THEN {SubSeq(var, 1, Len(var) - 1)}
                 ELSE {}
                 : var \in current_variations }

on(variation_type, category) == variation_type \in {category, "all"}

\* a faulty variant: the lambda future rules are left out under "all"
LambdaFutureOnly(variation_type, variations) ==
    IF variation_type = "lambda_future"
    THEN LambdaCompoundPass(PairPass(variations, LAMBDA_FUTURE_PATTERNS))
    ELSE variations

LambdaFuture(variation_type, variations) ==
    IF on(variation_type, "lambda_future")
    THEN LambdaCompoundPass(PairPass(variations, LAMBDA_FUTURE_PATTERNS))
    ELSE variations

Destruction(variation_type, variations) ==
    IF on(variation_type, "destruction")
    THEN PairPass(variations, DESTRUCTION_VERB_VARIATIONS) ELSE variations

Generation(variation_type, variations) ==
    IF on(variation_type, "generation")
    THEN PairPass(variations, GENERATION_VARIATIONS) ELSE variations

Loan(variation_type, variations) ==
    IF on(variation_type, "loan")
    THEN PairPass(variations, LOAN_VERB_VARIATIONS) ELSE variations

Command(variation_type, variations) ==
    IF on(variation_type, "command")
    THEN PairPass(variations, COMMAND_VERB_VARIATIONS) ELSE variations

Circumcision(variation_type, variations) ==
    IF on(variation_type, "circumcision")
    THEN PairPass(variations, CIRCUMCISION_VARIATIONS) ELSE variations

Vowel(variation_type, variations) ==
    IF on(variation_type, "vowel")
    THEN PairPass(PairPass(PairPass(variations, VOWEL_CONTRACTIONS),
                           DIPHTHONG_VARIATIONS), ABLAUT_VARIATIONS)
    ELSE variations

Aorist(variation_type, variations) ==
    IF on(variation_type, "aorist")
    THEN PairPass(PairPass(PairPass(variations, AORIST_PASSIVE_LAMBDA),
                           AORIST_VOWEL_VARIATIONS), AORIST_CONSONANT_VARIATIONS)
    ELSE variations

Dialectal(variation_type, variations) ==
    IF on(variation_type, "dialectal")
    THEN PairPass(variations, DIALECTAL_LETTER_VARIATIONS) ELSE variations

Compound(variation_type, variations) ==
    IF on(variation_type, "compound") THEN CompoundPrefixPass(variations) ELSE variations

Participle(variation_type, variations) ==
    IF on(variation_type, "participle")
    THEN PairPass(variations, PARTICIPLE_VARIATIONS) ELSE variations

\* the categories in the order of the function body, then the movable nu
generate_variation_list(base_word, variation_type) ==
    MovableNu(
     Participle(variation_type,
      Compound(variation_type,
       Dialectal(variation_type,
        Aorist(variation_type,
         Vowel(variation_type,
          Circumcision(variation_type,
           Command(variation_type,
            Loan(variation_type,
             Generation(variation_type,
              Destruction(variation_type,
               LambdaFuture(variation_type,
                            {strip_accents(lower(base_word))}))))))))))))

(***************************************************************************)
(* Python values.  None is NoneStr where a str is expected, NoneBook       *)
(* where a book name is expected and 0 where a chapter or verse number is  *)
(* expected (the code only ever tests these numbers for truth, and they    *)
(* are never set to 0).                                                    *)
(***************************************************************************)
NoneStr == <<"None">>

NoneBook == "None"

Truthy(s) == s # NoneStr /\ s # <<>>

\* dict: items in insertion order
DictKeys(d) == { d[i][1] : i \in DOMAIN d }

DictHas(d, k) == \E i \in DOMAIN d : d[i][1] = k

DictGet(d, k) == d[CHOOSE i \in DOMAIN d : d[i][1] = k][2]

\* d[k] = v: a key already present keeps its position
DictSet(d, k, v) ==
    IF DictHas(d, k)
    THEN [i \in DOMAIN d |-> IF d[i][1] = k THEN <<k, v>> ELSE d[i]]
    ELSE Append(d, <<k, v>>)

\* similarity ratios, compared exactly
Ratio(n, d) == [num |-> n, den |-> d]

Zero == Ratio(0, 1)

One == Ratio(1, 1)

Threshold == Ratio(80, 100)

RatioGE(x, y) == x.num * y.den >= y.num * x.den

RatioGT(x, y) == x.num * y.den > y.num * x.den

RatioMax(x, y) == IF RatioGE(x, y) THEN x ELSE y

(***************************************************************************)
(* check_missing_words.py: normalize_for_comparison.                       *)
(***************************************************************************)
RemoveSpaces(text) == SelectSeq(text, LAMBDA c : c # " ")

FoldSigma(t) == [i \in 1..Len(t) |-> IF t[i] = "ς" /\ i < Len(t) THEN "σ" ELSE t[i]]

normalize_for_comparison(text) == FoldSigma(RemoveSpaces(text))

(***************************************************************************)
(* difflib.SequenceMatcher(None, a, b).ratio() for sequences shorter than  *)
(* 200 elements (no junk, no popular elements): the longest matching       *)
(* block, earliest in a and then earliest in b, and recursively the blocks *)
(* to its left and to its right.  Positions are 1-based, ranges half-open. *)
(***************************************************************************)
RECURSIVE RunLength(_, _, _, _, _, _)
RunLength(a, b, i, j, ahi, bhi) ==
    IF i < ahi /\ j < bhi /\ a[i] = b[j]
    THEN 1 + RunLength(a, b, i + 1, j + 1, ahi, bhi)
    ELSE 0

MaxOf(S) == CHOOSE n \in S : \A m \in S : m <= n

\* the earliest start in a, then the earliest in b
Earliest(starts) ==
    CHOOSE p \in starts :
        \A q \in starts : p[1] < q[1] \/ (p[1] = q[1] /\ p[2] <= q[2])

LongestSize(a, b, alo, ahi, blo, bhi) ==
    MaxOf({0} \cup { RunLength(a, b, p[1], p[2], ahi, bhi) :
                       p \in (alo..(ahi - 1)) \X (blo..(bhi - 1)) })

LongestStarts(a, b, alo, ahi, blo, bhi, k) ==
    { p \in (alo..(ahi - 1)) \X (blo..(bhi - 1)) :
        RunLength(a, b, p[1], p[2], ahi, bhi) = k }

MatchAtStart(p, k) == [i |-> p[1], j |-> p[2], k |-> k]

MatchOfSize(a, b, alo, ahi, blo, bhi, k) ==
    IF k = 0 THEN [i |-> alo, j |-> blo, k |-> 0]
    ELSE MatchAtStart(Earliest(LongestStarts(a, b, alo, ahi, blo, bhi, k)), k)

find_longest_match(a, b, alo, ahi, blo, bhi) ==
    MatchOfSize(a, b, alo, ahi, blo, bhi, LongestSize(a, b, alo, ahi, blo, bhi))

RECURSIVE MatchingCharacters(_, _, _, _, _, _)
RECURSIVE MatchingAround(_, _, _, _, _, _, _)
\* the block m and the blocks to its left and to its right
MatchingAround(a, b, alo, ahi, blo, bhi, m) ==
    IF m.k = 0 THEN 0
    ELSE m.k
         + (IF alo < m.i /\ blo < m.j
            THEN MatchingCharacters(a, b, alo, m.i, blo, m.j) ELSE 0)
         + (IF m.i + m.k < ahi /\ m.j + m.k < bhi
            THEN MatchingCharacters(a, b, m.i + m.k, ahi, m.j + m.k, bhi) ELSE 0)

MatchingCharacters(a, b, alo, ahi, blo, bhi) ==
    MatchingAround(a, b, alo, ahi, blo, bhi, find_longest_match(a, b, alo, ahi, blo, bhi))

SequenceMatcherRatio(a, b) ==
    IF Len(a) + Len(b) = 0 THEN One
    ELSE Ratio(2 * MatchingCharacters(a, b, 1, Len(a) + 1, 1, Len(b) + 1),
               Len(a) + Len(b))

Abs(n) == IF n < 0 THEN 0 - n ELSE n

(***************************************************************************)
(* find_best_match, find_closest_word.  best = [match, ratio] is the pair  *)
(* (best_match_normalized, current_best_ratio).                            *)
(***************************************************************************)
\* a faulty variant: the candidate read last is kept with the best ratio so far
ImproveKeepsLast(best, candidate_normalized, ratio) ==
    [match |-> candidate_normalized, ratio |-> RatioMax(ratio, best.ratio)]

\* a faulty variant: a candidate of equal score replaces the one kept
ImproveOnTie(best, candidate_normalized, ratio) ==
    IF RatioGE(ratio, best.ratio) /\ RatioGT(ratio, Zero)
    THEN [match |-> candidate_normalized, ratio |-> ratio]
    ELSE best

Improve(best, candidate_normalized, ratio) ==
    IF RatioGT(ratio, best.ratio)
    THEN [match |-> candidate_normalized, ratio |-> ratio]
    ELSE best

\* a faulty variant: candidates of any length are compared
ConsiderAnyLength(best, normalized_for_comp, candidate_normalized, candidate_for_comp) ==
    Improve(best, candidate_normalized,
            SequenceMatcherRatio(normalized_for_comp, candidate_for_comp))

\* a faulty variant: the window of lengths is 3 wide
ConsiderWithinThree(best, normalized_for_comp, candidate_normalized, candidate_for_comp) ==
    IF Abs(Len(candidate_for_comp) - Len(normalized_for_comp)) > 3 THEN best
    ELSE Improve(best, candidate_normalized,
                 SequenceMatcherRatio(normalized_for_comp, candidate_for_comp))

Consider(best, normalized_for_comp, candidate_normalized, candidate_for_comp) ==
    IF Abs(Len(candidate_for_comp) - Len(normalized_for_comp)) > 2 THEN best
    ELSE Improve(best, candidate_normalized,
                 SequenceMatcherRatio(normalized_for_comp, candidate_for_comp))

RECURSIVE BestMatchFrom(_, _, _, _)
BestMatchFrom(word_dict, normalized_for_comp, i, best) ==
    IF i > Len(word_dict) THEN best
    ELSE BestMatchFrom(word_dict, normalized_for_comp, i + 1,
                       Consider(best, normalized_for_comp, word_dict[i][1],
                                normalize_for_comparison(word_dict[i][1])))

find_best_match(word_dict, normalized, current_best_ratio) ==
    BestMatchFrom(word_dict, normalize_for_comparison(normalized), 1,
                  [match |-> NoneStr, ratio |-> current_best_ratio])

CloseEnough(best) == RatioGE(best.ratio, Threshold) /\ Truthy(best.match)

Original(word_dict, best) == [match |-> DictGet(word_dict, best.match), ratio |-> best.ratio]

NoMatch == [match |-> NoneStr, ratio |-> Zero]

WithNu(word_dict, second) ==
    IF CloseEnough(second) THEN Original(word_dict, second) ELSE NoMatch

\* a faulty variant: the second search is made whatever the word ends in
ClosestAfterAnyEnding(word_dict, normalized, first) ==
    IF CloseEnough(first) THEN Original(word_dict, first)
    ELSE WithNu(word_dict, find_best_match(word_dict, Append(normalized, "ν"), first.ratio))

ClosestAfter(word_dict, normalized, first) ==
    IF CloseEnough(first) THEN Original(word_dict, first)
    ELSE IF EndsWith(normalized, <<"ε">>) \/ EndsWith(normalized, <<"ι">>)
    THEN WithNu(word_dict, find_best_match(word_dict, Append(normalized, "ν"), first.ratio))
    ELSE NoMatch

ClosestTo(word_dict, normalized) ==
    ClosestAfter(word_dict, normalized, find_best_match(word_dict, normalized, Zero))

find_closest_word(word, word_dict) == ClosestTo(word_dict, strip_diacritics(lower(word)))

(***************************************************************************)
(* Scoped word lookup: get_words_by_id_range, get_verse_words,             *)
(* get_area_words.  words_dict : word_id -> [normalized, original];        *)
(* sorted_verses : the items of verse_map sorted by word_id.               *)
(***************************************************************************)
RECURSIVE WordsInOrder(_, _, _)
WordsInOrder(word_id, end_word_id, words_dict) ==
    IF word_id > end_word_id THEN <<>>
    ELSE (IF DictHas(words_dict, word_id) THEN <<DictGet(words_dict, word_id)>> ELSE <<>>)
         \o WordsInOrder(word_id + 1, end_word_id, words_dict)

RECURSIVE AddWords(_, _, _)
AddWords(result_words, words_in_order, i) ==
    IF i > Len(words_in_order) THEN result_words
    ELSE AddWords(DictSet(result_words, words_in_order[i].normalized,
                          words_in_order[i].original),
                  words_in_order, i + 1)

\* a faulty variant: the originals of a compound are joined without the space
RECURSIVE AddCompoundsUnspaced(_, _, _)
AddCompoundsUnspaced(result_words, words_in_order, i) ==
    IF i > Len(words_in_order) - 1 THEN result_words
    ELSE AddCompoundsUnspaced(
             DictSet(result_words,
                     words_in_order[i].normalized \o words_in_order[i + 1].normalized,
                     words_in_order[i].original \o words_in_order[i + 1].original),
             words_in_order, i + 1)

RECURSIVE AddCompounds(_, _, _)
AddCompounds(result_words, words_in_order, i) ==
    IF i > Len(words_in_order) - 1 THEN result_words
    ELSE LET word1 == words_in_order[i]
             word2 == words_in_order[i + 1]
         IN  AddCompounds(DictSet(result_words, word1.normalized \o word2.normalized,
                                  word1.original \o <<" ">> \o word2.original),
                          words_in_order, i + 1)

get_words_by_id_range(start_word_id, end_word_id, words_dict) ==
    LET words_in_order == WordsInOrder(start_word_id, end_word_id, words_dict)
    IN  AddCompounds(AddWords(<<>>, words_in_order, 1), words_in_order, 1)

MaxWordId(words_dict) ==
    CHOOSE m \in DictKeys(words_dict) : \A k \in DictKeys(words_dict) : k <= m

\* the first index of verse_ref in sorted_verses, 0 for None
CurrentIdx(verse_ref, sorted_verses) ==
    IF \E i \in DOMAIN sorted_verses : sorted_verses[i][1] = verse_ref
    THEN CHOOSE i \in DOMAIN sorted_verses :
            /\ sorted_verses[i][1] = verse_ref
            /\ \A j \in 1..(i - 1) : sorted_verses[j][1] # verse_ref
    ELSE 0

\* a faulty variant: the verse runs up to and including the first word of the next verse
get_verse_words_through_next(verse_ref, verse_map, sorted_verses, words_dict) ==
    IF ~DictHas(verse_map, verse_ref) THEN <<>>
    ELSE get_words_by_id_range(
             DictGet(verse_map, verse_ref),
             IF CurrentIdx(verse_ref, sorted_verses) + 1 <= Len(sorted_verses)
             THEN sorted_verses[CurrentIdx(verse_ref, sorted_verses) + 1][2]
             ELSE IF words_dict # <<>> THEN MaxWordId(words_dict)
             ELSE DictGet(verse_map, verse_ref),
             words_dict)

get_verse_words(verse_ref, verse_map, sorted_verses, words_dict) ==
    IF ~DictHas(verse_map, verse_ref) THEN <<>>
    ELSE LET start_id == DictGet(verse_map, verse_ref)
             current_idx == CurrentIdx(verse_ref, sorted_verses)
             end_id == IF current_idx # 0 /\ current_idx + 1 <= Len(sorted_verses)
                       THEN sorted_verses[current_idx + 1][2] - 1
                       ELSE IF words_dict # <<>> THEN MaxWordId(words_dict)
                       ELSE start_id
         IN  get_words_by_id_range(start_id, end_id, words_dict)

Min(a, b) == IF a <= b THEN a ELSE b

Max(a, b) == IF a >= b THEN a ELSE b

\* a faulty variant: a reference that is not in the index is taken for the first verse
get_area_words_from_first(verse_ref, verse_map, sorted_verses, words_dict, verse_range) ==
    IF sorted_verses = <<>> \/ words_dict = <<>> THEN <<>>
    ELSE get_words_by_id_range(sorted_verses[1][2], MaxWordId(words_dict), words_dict)

\* a faulty variant: the area always runs to the highest word ID
get_area_words_to_highest(verse_ref, verse_map, sorted_verses, words_dict, verse_range) ==
    IF ~DictHas(verse_map, verse_ref) \/ words_dict = <<>> THEN <<>>
    ELSE get_words_by_id_range(
             sorted_verses[Max(1, CurrentIdx(verse_ref, sorted_verses) - verse_range)][2],
             MaxWordId(words_dict), words_dict)

\* a faulty variant: the area stops one word ID early
get_area_words_one_short(verse_ref, verse_map, sorted_verses, words_dict, verse_range) ==
    IF ~DictHas(verse_map, verse_ref) \/ words_dict = <<>> THEN <<>>
    ELSE get_words_by_id_range(
             sorted_verses[Max(1, CurrentIdx(verse_ref, sorted_verses) - verse_range)][2],
             (IF Min(Len(sorted_verses), CurrentIdx(verse_ref, sorted_verses) + verse_range) + 1
                   <= Len(sorted_verses)
              THEN sorted_verses[Min(Len(sorted_verses),
                                     CurrentIdx(verse_ref, sorted_verses) + verse_range) + 1][2] - 1
              ELSE MaxWordId(words_dict)) - 1,
             words_dict)

get_area_words(verse_ref, verse_map, sorted_verses, words_dict, verse_range) ==
    IF ~DictHas(verse_map, verse_ref) THEN <<>>
    ELSE LET current_idx == CurrentIdx(verse_ref, sorted_verses)
             start_verse_idx == Max(1, current_idx - verse_range)
             end_verse_idx == Min(Len(sorted_verses), current_idx + verse_range)
             start_word_id == sorted_verses[start_verse_idx][2]
             end_word_id == IF end_verse_idx + 1 <= Len(sorted_verses)
                            THEN sorted_verses[end_verse_idx + 1][2] - 1
                            ELSE IF words_dict # <<>> THEN MaxWordId(words_dict)
                            ELSE start_word_id
         IN  IF current_idx = 0 THEN <<>>
             ELSE get_words_by_id_range(start_word_id, end_word_id, words_dict)

(***************************************************************************)
(* Loading (load_words_with_ids, derive_word_set, load_versification,      *)
(* load_accepted_words, load_already_examined).  A file is                 *)
(* [exists, rows]; a row is a sequence of cells; a cell is                 *)
(* [int |-> TRUE, val |-> n] when int(cell) succeeds with value n and      *)
(* [int |-> FALSE, val |-> text] when it raises ValueError.  The last cell *)
(* of a word row is text.                                                  *)
(***************************************************************************)
IntCell(n) == [int |-> TRUE, val |-> n]

TextCell(s) == [int |-> FALSE, val |-> s]

\* An exception inside the loop leaves the loop: the rows read so far stay.
RECURSIVE WordsRowsFrom(_, _, _)
WordsRowsFrom(rows, i, words_dict) ==
    IF i > Len(rows) THEN words_dict
    ELSE IF Len(rows[i]) < 2 THEN WordsRowsFrom(rows, i + 1, words_dict)
    ELSE IF ~rows[i][1].int THEN words_dict
    ELSE LET word == normalize_text(rows[i][Len(rows[i])].val)
         IN  WordsRowsFrom(rows, i + 1,
                 DictSet(words_dict, rows[i][1].val,
                         [normalized |-> strip_diacritics(lower(word)),
                          original |-> lower(word)]))

load_words_with_ids(file) ==
    IF file.exists THEN WordsRowsFrom(file.rows, 1, <<>>) ELSE <<>>

RECURSIVE DeriveFrom(_, _, _)
DeriveFrom(words_dict, i, word_set) ==
    IF i > Len(words_dict) THEN word_set
    ELSE DeriveFrom(words_dict, i + 1,
             IF DictHas(word_set, words_dict[i][2].normalized) THEN word_set
             ELSE Append(word_set, <<words_dict[i][2].normalized, words_dict[i][2].original>>))

derive_word_set(words_dict) == DeriveFrom(words_dict, 1, <<>>)

RECURSIVE VerseRowsFrom(_, _, _)
VerseRowsFrom(rows, i, verse_map) ==
    IF i > Len(rows) THEN verse_map
    ELSE IF Len(rows[i]) < 2 THEN VerseRowsFrom(rows, i + 1, verse_map)
    ELSE IF rows[i][1].int
    THEN VerseRowsFrom(rows, i + 1, DictSet(verse_map, rows[i][2].val, rows[i][1].val))
    ELSE IF rows[i][2].int
    THEN VerseRowsFrom(rows, i + 1, DictSet(verse_map, rows[i][1].val, rows[i][2].val))
    ELSE verse_map

\* sorted(verse_map.items(), key=lambda x: x[1]): a stable sort
RECURSIVE InsertSorted(_, _)
InsertSorted(sorted, item) ==
    IF sorted = <<>> THEN <<item>>
    ELSE IF sorted[Len(sorted)][2] <= item[2] THEN Append(sorted, item)
    ELSE Append(InsertSorted(SubSeq(sorted, 1, Len(sorted) - 1), item), sorted[Len(sorted)])

RECURSIVE SortFrom(_, _, _)
SortFrom(items, i, sorted) ==
    IF i > Len(items) THEN sorted
    ELSE SortFrom(items, i + 1, InsertSorted(sorted, items[i]))

sort_by_word_id(verse_map) == SortFrom(verse_map, 1, <<>>)

load_versification(file) ==
    LET verse_map == IF file.exists THEN VerseRowsFrom(file.rows, 1, <<>>) ELSE <<>>
    IN  [verse_map |-> verse_map, sorted_verses |-> sort_by_word_id(verse_map)]

\* file.rows: the lines, already stripped; blank lines and # comments are skipped
load_accepted_words(file) ==
    IF ~file.exists THEN {}
    ELSE { strip_diacritics(lower(normalize_text(file.rows[i]))) :
             i \in { j \in DOMAIN file.rows :
                       file.rows[j] # <<>> /\ file.rows[j][1] # "#" } }

RECURSIVE ExaminedRowsFrom(_, _, _)
ExaminedRowsFrom(rows, i, examined) ==
    IF i > Len(rows) THEN examined
    ELSE IF Len(rows[i]) < 3 THEN ExaminedRowsFrom(rows, i + 1, examined)
    ELSE ExaminedRowsFrom(rows, i + 1,
             DictSet(examined,
                     <<normalize_text(rows[i][1]),
                       strip_diacritics(lower(normalize_text(rows[i][2])))>>,
                     normalize_text(rows[i][3])))

load_already_examined(file) ==
    IF file.exists THEN ExaminedRowsFrom(file.rows, 1, <<>>) ELSE <<>>

(* book_code_mappings.py: the book tables *)
BRENTON_TO_SWETE ==
    ("ΓΕΝΕΣΙΣ" :> "Gen")
    @@ ("ΕΞΟΔΟΣ" :> "Exo")
    @@ ("ΛΕΥΙΤΙΚΟΝ" :> "Lev")
    @@ ("ΑΡΙΘΜΟΙ" :> "Num")
    @@ ("ΔΕΥΤΕΡΟΝΟΜΙΟΝ" :> "Deu")
    @@ ("ΙΗΣΟΥΣ ΝΑΥΗ" :> "Jos")
    @@ ("ΚΡΙΤΑΙ" :> "Jdg")
    @@ ("ΡΟΥΘ" :> "Rut")
    @@ ("ΒΑΣΙΛΕΙΩΝ Α" :> "1Sa")
    @@ ("ΒΑΣΙΛΕΙΩΝ Β" :> "2Sa")
    @@ ("ΒΑΣΙΛΕΙΩΝ Γ" :> "1Ki")
    @@ ("ΒΑΣΙΛΕΙΩΝ Δ" :> "2Ki")
    @@ ("ΠΑΡΑΛΕΙΠΟΜΕΝΩΝ Α" :> "1Ch")
    @@ ("ΠΑΡΑΛΕΙΠΟΜΕΝΩΝ Β" :> "2Ch")
    @@ ("ΕΣΔΡΑΣ" :> "Ezr")
    @@ ("ΝΕΕΜΙΑΣ" :> "Neh")
    @@ ("ΕΣΔΡΑΣ Α" :> "1Es")
    @@ ("ΕΣΘΗΡ" :> "Est")
    @@ ("ΙΩΒ" :> "Job")
    @@ ("ΨΑΛΜΟΙ" :> "Psa")
    @@ ("ΠΑΡΟΙΜΙΑΙ ΣΑΛΩΜΩΝΤΟΣ" :> "Pro")
    @@ ("ΕΚΚΛΗΣΙΑΣΤΗΣ" :> "Ecc")
    @@ ("ΑΣΜΑ" :> "Sol")
    @@ ("ΗΣΑΙΑΣ" :> "Isa")
    @@ ("ΙΕΡΕΜΙΑΣ" :> "Jer")
    @@ ("ΘΡΗΝΟΙ ΙΕΡΕΜΙΟΥ" :> "Lam")
    @@ ("ΙΕΖΕΚΙΗΛ" :> "Eze")
    @@ ("ΔΑΝΙΗΛ" :> "Dan")
    @@ ("ΩΣΗΕ" :> "Hos")
    @@ ("ΙΩΗΛ" :> "Joe")
    @@ ("ΑΜΩΣ" :> "Amo")
    @@ ("ΟΒΔΕΙΟΥ" :> "Oba")
    @@ ("ΙΩΝΑΣ" :> "Jon")
    @@ ("ΜΙΧΑΙΑΣ" :> "Mic")
    @@ ("ΝΑΟΥΜ" :> "Nah")
    @@ ("ΑΜΒΑΚΟΥΜ" :> "Hab")
    @@ ("ΣΟΦΟΝΙΑΣ" :> "Zep")
    @@ ("ΑΓΓΑΙΟΣ" :> "Hag")
    @@ ("ΖΑΧΑΡΙΑΣ" :> "Zec")
    @@ ("ΜΑΛΑΧΙΑΣ" :> "Mal")
    @@ ("ΤΩΒΙΤ" :> "Tob")
    @@ ("ΙΟΥΔΙΘ" :> "Jdt")
    @@ ("ΣΟΦΙΑ ΣΑΛΩΜΩΝ" :> "Wis")
    @@ ("ΣΟΦΙΑ ΣΕΙΡΑΧ" :> "Sir")
    @@ ("ΒΑΡΟΥΧ" :> "Bar")
    @@ ("ΕΠΙΣΤΟΛΗ ΙΕΡΕΜΙΟΥ" :> "Epj")
    @@ ("ΣΩΣΑΝΝΑ" :> "Sus")
    @@ ("ΒΗΛ ΚΑΙ ΔΡΑΚΩΝ" :> "Bel")
    @@ ("ΜΑΚΚΑΒΑΙΩΝ Α" :> "1Ma")
    @@ ("ΜΑΚΚΑΒΑΙΩΝ Β" :> "2Ma")
    @@ ("ΜΑΚΚΑΒΑΙΩΝ Γ" :> "3Ma")
    @@ ("ΜΑΚΚΑΒΑΙΩΝ Δ" :> "4Ma")
    @@ ("ΠΡΟΣΕΥΧΗ ΜΑΝΑΣΣΗ ΥΙΟΥ ΕΖΕΚΙΟΥ" :> "Ode")

BRENTON_TO_RAHLFS ==
    ("ΓΕΝΕΣΙΣ" :> "Gen")
    @@ ("ΕΞΟΔΟΣ" :> "Exod")
    @@ ("ΛΕΥΙΤΙΚΟΝ" :> "Lev")
    @@ ("ΑΡΙΘΜΟΙ" :> "Num")
    @@ ("ΔΕΥΤΕΡΟΝΟΜΙΟΝ" :> "Deut")
    @@ ("ΙΗΣΟΥΣ ΝΑΥΗ" :> "JoshB")
    @@ ("ΚΡΙΤΑΙ" :> "JudgB")
    @@ ("ΡΟΥΘ" :> "Ruth")
    @@ ("ΒΑΣΙΛΕΙΩΝ Α" :> "1Sam")
    @@ ("ΒΑΣΙΛΕΙΩΝ Β" :> "2Sam")
    @@ ("ΒΑΣΙΛΕΙΩΝ Γ" :> "1Kgs")
    @@ ("ΒΑΣΙΛΕΙΩΝ Δ" :> "2Kgs")
    @@ ("ΠΑΡΑΛΕΙΠΟΜΕΝΩΝ Α" :> "1Chr")
    @@ ("ΠΑΡΑΛΕΙΠΟΜΕΝΩΝ Β" :> "2Chr")
    @@ ("ΕΣΔΡΑΣ" :> "2Esdr")
    @@ ("ΝΕΕΜΙΑΣ" :> "2Esdr")
    @@ ("ΕΣΔΡΑΣ Α" :> "1Esdr")
    @@ ("ΕΣΘΗΡ" :> "Esth")
    @@ ("ΙΩΒ" :> "Job")
    @@ ("ΨΑΛΜΟΙ" :> "Ps")
    @@ ("ΠΑΡΟΙΜΙΑΙ ΣΑΛΩΜΩΝΤΟΣ" :> "Prov")
    @@ ("ΕΚΚΛΗΣΙΑΣΤΗΣ" :> "Eccl")
    @@ ("ΑΣΜΑ" :> "Song")
    @@ ("ΗΣΑΙΑΣ" :> "Isa")
    @@ ("ΙΕΡΕΜΙΑΣ" :> "Jer")
    @@ ("ΘΡΗΝΟΙ ΙΕΡΕΜΙΟΥ" :> "Lam")
    @@ ("ΙΕΖΕΚΙΗΛ" :> "Ezek")
    @@ ("ΔΑΝΙΗΛ" :> "DanTh")
    @@ ("ΩΣΗΕ" :> "Hos")
    @@ ("ΙΩΗΛ" :> "Joel")
    @@ ("ΑΜΩΣ" :> "Amos")
    @@ ("ΟΒΔΕΙΟΥ" :> "Obad")
    @@ ("ΙΩΝΑΣ" :> "Jonah")
    @@ ("ΜΙΧΑΙΑΣ" :> "Mic")
    @@ ("ΝΑΟΥΜ" :> "Nah")
    @@ ("ΑΜΒΑΚΟΥΜ" :> "Hab")
    @@ ("ΣΟΦΟΝΙΑΣ" :> "Zeph")
    @@ ("ΑΓΓΑΙΟΣ" :> "Hag")
    @@ ("ΖΑΧΑΡΙΑΣ" :> "Zech")
    @@ ("ΜΑΛΑΧΙΑΣ" :> "Mal")
    @@ ("ΤΩΒΙΤ" :> "TobS")
    @@ ("ΙΟΥΔΙΘ" :> "Jdt")
    @@ ("ΣΟΦΙΑ ΣΑΛΩΜΩΝ" :> "Wis")
    @@ ("ΣΟΦΙΑ ΣΕΙΡΑΧ" :> "Sir")
    @@ ("ΒΑΡΟΥΧ" :> "Bar")
    @@ ("ΕΠΙΣΤΟΛΗ ΙΕΡΕΜΙΟΥ" :> "EpJer")
    @@ ("ΣΩΣΑΝΝΑ" :> "SusTh")
    @@ ("ΒΗΛ ΚΑΙ ΔΡΑΚΩΝ" :> "BelTh")
    @@ ("ΜΑΚΚΑΒΑΙΩΝ Α" :> "1Macc")
    @@ ("ΜΑΚΚΑΒΑΙΩΝ Β" :> "2Macc")
    @@ ("ΜΑΚΚΑΒΑΙΩΝ Γ" :> "3Macc")
    @@ ("ΜΑΚΚΑΒΑΙΩΝ Δ" :> "4Macc")
    @@ ("ΠΡΟΣΕΥΧΗ ΜΑΝΑΣΣΗ ΥΙΟΥ ΕΖΕΚΙΟΥ" :> "Odes")

UpperCase ==
    { "U0370", "U0372", "U0376", "U037F", "Ά", "Έ", "Ή", "Ί", "Ό", "Ύ", "Ώ", "Α",
      "Β", "Γ", "Δ", "Ε", "Ζ", "Η", "Θ", "Ι", "Κ", "Λ", "Μ", "Ν",
      "Ξ", "Ο", "Π", "Ρ", "Σ", "Τ", "Υ", "Φ", "Χ", "Ψ", "Ω", "Ϊ",
      "Ϋ", "Ϗ", "ϒ", "ϓ", "ϔ", "Ϙ", "Ϛ", "Ϝ", "Ϟ", "Ϡ", "Ϣ", "Ϥ",
      "Ϧ", "Ϩ", "Ϫ", "Ϭ", "Ϯ", "ϴ", "Ϸ", "Ϲ", "Ϻ", "Ͻ", "Ͼ", "Ͽ",
      "U1F08", "U1F09", "U1F0A", "U1F0B", "U1F0C", "U1F0D", "U1F0E", "U1F0F", "U1F18", "U1F19", "U1F1A", "U1F1B",
      "U1F1C", "U1F1D", "U1F28", "U1F29", "U1F2A", "U1F2B", "U1F2C", "U1F2D", "U1F2E", "U1F2F", "U1F38", "U1F39",
      "U1F3A", "U1F3B", "U1F3C", "U1F3D", "U1F3E", "U1F3F", "U1F48", "U1F49", "U1F4A", "U1F4B", "U1F4C", "U1F4D",
      "U1F59", "U1F5B", "U1F5D", "U1F5F", "U1F68", "U1F69", "U1F6A", "U1F6B", "U1F6C", "U1F6D", "U1F6E", "U1F6F",
      "Ᾰ", "Ᾱ", "Ὰ", "Ὲ", "Ὴ", "Ῐ", "Ῑ", "Ὶ", "Ῠ", "Ῡ", "Ὺ", "Ῥ",
      "Ὸ", "Ὼ" }

number_patterns ==
    << <<"U1F11", "κ", "α", "τ", "ό">>,
       <<"χ", "ί", "λ", "ι">>,
       <<"μ", "ύ", "ρ", "ι">>,
       <<"δ", "έ", "κ", "α">>,
       <<"ε", "U1F34", "κ", "ο", "σ", "ι">>,
       <<"τ", "ρ", "ι", "ά", "κ", "ο", "ν", "τ", "α">>,
       <<"τ", "ε", "σ", "σ", "α", "ρ", "ά", "κ", "ο", "ν", "τ", "α">>,
       <<"π", "ε", "ν", "τ", "ή", "κ", "ο", "ν", "τ", "α">>,
       <<"U1F11", "ξ", "ή", "κ", "ο", "ν", "τ", "α">>,
       <<"U1F11", "β", "δ", "ο", "μ", "ή", "κ", "ο", "ν", "τ", "α">>,
       <<"U1F40", "γ", "δ", "ο", "ή", "κ", "ο", "ν", "τ", "α">>,
       <<"U1F10", "ν", "ε", "ν", "ή", "κ", "ο", "ν", "τ", "α">>,
       <<"U1F10", "ν", "ν", "ε", "ν", "ή", "κ", "ο", "ν", "τ", "α">>,
       <<"U1F10", "ν", "ν", "ε", "ή", "κ", "ο", "ν", "τ", "α">>,
       <<"π", "ρ", "ῶ", "τ", "ο">>,
       <<"δ", "ε", "ύ", "τ", "ε", "ρ", "ο">>,
       <<"τ", "ρ", "ί", "τ", "ο">>,
       <<"τ", "έ", "τ", "α", "ρ", "τ", "ο">>,
       <<"π", "έ", "μ", "π", "τ", "ο">>,
       <<"δ", "ι", "α", "κ", "ό", "σ", "ι">>,
       <<"τ", "ρ", "ι", "α", "κ", "ό", "σ", "ι">>,
       <<"τ", "ε", "τ", "ρ", "α", "κ", "ό", "σ", "ι">>,
       <<"π", "ε", "ν", "τ", "α", "κ", "ό", "σ", "ι">>,
       <<"U1F11", "ξ", "α", "κ", "ό", "σ", "ι">>,
       <<"U1F11", "π", "τ", "α", "κ", "ό", "σ", "ι">>,
       <<"U1F40", "κ", "τ", "α", "κ", "ό", "σ", "ι">>,
       <<"U1F10", "ν", "ν", "α", "κ", "ό", "σ", "ι">> >>


(***************************************************************************)
(* book_code_mappings.py.  A reference is the tuple of the pieces of the   *)
(* formatted string: "Gen.14.7" is <<"Gen", ".", 14, ".", 7>> (Rahlfs) and *)
(* "Gen.14:7" is <<"Gen", ".", 14, ":", 7>> (Swete).  raised = TRUE is the *)
(* ValueError.                                                             *)
(***************************************************************************)
\* a faulty variant: Nehemiah is looked up in the table like any other book
convert_brenton_chapter_by_table(brenton_book, brenton_chapter) ==
    IF brenton_book \notin DOMAIN BRENTON_TO_RAHLFS
    THEN [raised |-> TRUE, book |-> NoneBook, chapter |-> 0]
    ELSE [raised |-> FALSE, book |-> BRENTON_TO_RAHLFS[brenton_book],
          chapter |-> brenton_chapter]

convert_brenton_chapter_to_rahlfs(brenton_book, brenton_chapter) ==
    IF brenton_book = "ΝΕΕΜΙΑΣ"
    THEN [raised |-> FALSE, book |-> "2Esdr", chapter |-> brenton_chapter + 10]
    ELSE IF brenton_book \notin DOMAIN BRENTON_TO_RAHLFS
    THEN [raised |-> TRUE, book |-> NoneBook, chapter |-> 0]
    ELSE [raised |-> FALSE, book |-> BRENTON_TO_RAHLFS[brenton_book],
          chapter |-> brenton_chapter]

convert_brenton_chapter_to_swete(brenton_book, brenton_chapter) ==
    IF brenton_book \notin DOMAIN BRENTON_TO_SWETE
    THEN [raised |-> TRUE, book |-> NoneBook, chapter |-> 0]
    ELSE [raised |-> FALSE, book |-> BRENTON_TO_SWETE[brenton_book],
          chapter |-> brenton_chapter]

\* f"{rahlfs_book}.{rahlfs_chapter}.{verse}"
RahlfsRef(converted, verse) ==
    IF converted.raised THEN [raised |-> TRUE, ref |-> <<>>]
    ELSE [raised |-> FALSE, ref |-> <<converted.book, ".", converted.chapter, ".", verse>>]

convert_brenton_reference_to_rahlfs(brenton_book, chapter, verse) ==
    RahlfsRef(convert_brenton_chapter_to_rahlfs(brenton_book, chapter), verse)

\* f"{swete_book}.{swete_chapter}:{verse}"
SweteRef(converted, verse) ==
    IF converted.raised THEN [raised |-> TRUE, ref |-> <<>>]
    ELSE [raised |-> FALSE, ref |-> <<converted.book, ".", converted.chapter, ":", verse>>]

convert_brenton_reference_to_swete(brenton_book, chapter, verse) ==
    SweteRef(convert_brenton_chapter_to_swete(brenton_book, chapter), verse)

(***************************************************************************)
(* State.  input: the files named on the command line and --no-typo-check; *)
(* the module globals of check_missing_words.py; the locals of             *)
(* process_bible_file; fn, arg, out: a call of one function on its own,    *)
(* its arguments and what it returned.                                     *)
(***************************************************************************)
VARIABLES input,
          RAHLFS_WORDS_DICT, SWETE_WORDS_DICT, RAHLFS_WORDS, SWETE_WORDS,
          RAHLFS_VERSE_MAP, SWETE_VERSE_MAP, RAHLFS_SORTED_VERSES, SWETE_SORTED_VERSES,
          ACCEPTED_WORDS, ALREADY_EXAMINED,
          pc, line_num, current_book, current_chapter, current_verse,
          missing_words, words_checked, typos_found, reports,
          fn, arg, out

globals == <<RAHLFS_WORDS_DICT, SWETE_WORDS_DICT, RAHLFS_WORDS, SWETE_WORDS,
             RAHLFS_VERSE_MAP, SWETE_VERSE_MAP, RAHLFS_SORTED_VERSES,
             SWETE_SORTED_VERSES, ACCEPTED_WORDS, ALREADY_EXAMINED>>

locals == <<pc, line_num, current_book, current_chapter, current_verse,
            missing_words, words_checked, typos_found, reports>>

call == <<fn, arg, out>>

vars == <<input, globals, locals, call>>

(***************************************************************************)
(* The match engine.  A check returns [found, match, score]; match is the  *)
(* set of the values the run can return: generate_variation_list returns   *)
(* list(set), whose order differs from run to run, and the first           *)
(* variation with a hit decides the matched word.                          *)
(***************************************************************************)
NotFound == [found |-> FALSE, match |-> {NoneStr}, score |-> Zero]

\* checked_r, checked_s: what check_func gives for the Rahlfs and the Swete words
check_words_in_both_sources(checked_r, checked_s) ==
    IF checked_r.found \/ checked_s.found
    THEN [found |-> TRUE,
          match |-> IF checked_r.found /\ RatioGE(checked_r.score, checked_s.score)
                    THEN checked_r.match ELSE checked_s.match,
          score |-> RatioMax(checked_r.score, checked_s.score)]
    ELSE NotFound

\* the normalized variations that equal the normalized key of some item
\* a faulty variant: the variations are compared with the keys as they are
HitsExact(variations, verse_words) ==
    { v \in variations : \E i \in DOMAIN verse_words : verse_words[i][1] = v }

Hits(variations, verse_words) ==
    { v \in { normalize_for_comparison(x) : x \in variations } :
        \E i \in DOMAIN verse_words : normalize_for_comparison(verse_words[i][1]) = v }

\* the value of the first item whose normalized key is v
FirstValue(verse_words, v) ==
    verse_words[CHOOSE i \in DOMAIN verse_words :
                   /\ normalize_for_comparison(verse_words[i][1]) = v
                   /\ \A j \in 1..(i - 1) :
                         normalize_for_comparison(verse_words[j][1]) # v][2]

VariationFound(verse_words, hits, variation_count) ==
    [found |-> hits # {},
     match |-> IF hits = {} THEN {NoneStr}
               ELSE { FirstValue(verse_words, v) : v \in hits },
     score |-> Ratio(variation_count, 1)]

VariationIn(variations, verse_words) ==
    VariationFound(verse_words, Hits(variations, verse_words), Cardinality(variations))

has_legitimate_variation_in_verse(word, verse_words) ==
    IF verse_words = <<>> THEN NotFound
    ELSE VariationIn(generate_variation_list(word, "all"), verse_words)

check_legitimate_variations_in_scope(word, rahlfs_words, swete_words) ==
    check_words_in_both_sources(has_legitimate_variation_in_verse(word, rahlfs_words),
                                has_legitimate_variation_in_verse(word, swete_words))

TypoFound(closest) ==
    [found |-> RatioGE(closest.ratio, Threshold),
     match |-> {closest.match},
     score |-> closest.ratio]

find_typo(w, word_dict) == TypoFound(find_closest_word(w, word_dict))

check_typos_in_scope(word, rahlfs_words, swete_words) ==
    check_words_in_both_sources(find_typo(word, rahlfs_words), find_typo(word, swete_words))

\* (is_typo, closest_match, similarity_ratio, verse_match, area_match, legitimate_variation)
Results(is_typo, matches, similarity, verse_match, area_match, legitimate_variation) ==
    { [is_typo |-> is_typo, closest_match |-> m, similarity |-> similarity,
       verse_match |-> verse_match, area_match |-> area_match,
       legitimate_variation |-> legitimate_variation, raised |-> FALSE] :
      m \in matches }

VerseRange == 20

\* all([brenton_book, brenton_ch, brenton_vs, RAHLFS_VERSE_MAP, ...])
\* a faulty variant: the data of one edition is enough for the scoped search
HaveVerseDataOfOne(brenton_book, brenton_ch, brenton_vs) ==
    /\ brenton_book \notin {NoneBook, ""} /\ brenton_ch # 0 /\ brenton_vs # 0
    /\ \/ RAHLFS_VERSE_MAP # <<>> /\ RAHLFS_SORTED_VERSES # <<>> /\ RAHLFS_WORDS_DICT # <<>>
       \/ SWETE_VERSE_MAP # <<>> /\ SWETE_SORTED_VERSES # <<>> /\ SWETE_WORDS_DICT # <<>>

HaveVerseData(brenton_book, brenton_ch, brenton_vs) ==
    /\ brenton_book \notin {NoneBook, ""} /\ brenton_ch # 0 /\ brenton_vs # 0
    /\ RAHLFS_VERSE_MAP # <<>> /\ SWETE_VERSE_MAP # <<>>
    /\ RAHLFS_SORTED_VERSES # <<>> /\ SWETE_SORTED_VERSES # <<>>
    /\ RAHLFS_WORDS_DICT # <<>> /\ SWETE_WORDS_DICT # <<>>

\* a faulty variant: a match of the broad search counts as a variation
CorpusResultAsVariation(typo) ==
    IF typo.found
    THEN Results(FALSE, typo.match, typo.score, FALSE, FALSE, TRUE)
    ELSE Results(FALSE, {NoneStr}, Zero, FALSE, FALSE, FALSE)

CorpusResult(typo) ==
    IF typo.found
    THEN Results(TRUE, typo.match, typo.score, FALSE, FALSE, FALSE)
    ELSE Results(FALSE, {NoneStr}, Zero, FALSE, FALSE, FALSE)

\* the fall back to the broad corpus search
BroadSearch(word) == CorpusResult(check_typos_in_scope(word, RAHLFS_WORDS, SWETE_WORDS))

AreaTypo(word, typo) ==
    IF typo.found
    THEN Results(TRUE, typo.match, typo.score, FALSE, TRUE, FALSE)
    ELSE BroadSearch(word)

AreaVariation(word, rahlfs_area_words, swete_area_words, variation) ==
    IF variation.found
    THEN Results(FALSE, variation.match, One, FALSE, TRUE, TRUE)
    ELSE AreaTypo(word, check_typos_in_scope(word, rahlfs_area_words, swete_area_words))

AreaSearch(word, rahlfs_area_words, swete_area_words) ==
    IF rahlfs_area_words # <<>> \/ swete_area_words # <<>>
    THEN AreaVariation(word, rahlfs_area_words, swete_area_words,
                       check_legitimate_variations_in_scope(word, rahlfs_area_words,
                                                            swete_area_words))
    ELSE BroadSearch(word)

AreaOf(word, rahlfs_ref, swete_ref) ==
    AreaSearch(word,
               get_area_words(rahlfs_ref, RAHLFS_VERSE_MAP, RAHLFS_SORTED_VERSES,
                              RAHLFS_WORDS_DICT, VerseRange),
               get_area_words(swete_ref, SWETE_VERSE_MAP, SWETE_SORTED_VERSES,
                              SWETE_WORDS_DICT, VerseRange))

\* a faulty variant: a typo of the verse is flagged for the area as well
VerseTypoInBothScopes(word, rahlfs_ref, swete_ref, typo) ==
    IF typo.found
    THEN Results(TRUE, typo.match, typo.score, TRUE, TRUE, FALSE)
    ELSE AreaOf(word, rahlfs_ref, swete_ref)

VerseTypo(word, rahlfs_ref, swete_ref, typo) ==
    IF typo.found
    THEN Results(TRUE, typo.match, typo.score, TRUE, FALSE, FALSE)
    ELSE AreaOf(word, rahlfs_ref, swete_ref)

VerseVariation(word, rahlfs_ref, swete_ref, rahlfs_verse_words, swete_verse_words, variation) ==
    IF variation.found
    THEN Results(FALSE, variation.match, One, TRUE, FALSE, TRUE)
    ELSE VerseTypo(word, rahlfs_ref, swete_ref,
                   check_typos_in_scope(word, rahlfs_verse_words, swete_verse_words))

\* a faulty variant: in the verse the typo test comes before the variation test
VerseSearchTypoFirst(word, rahlfs_ref, swete_ref, rahlfs_verse_words, swete_verse_words) ==
    IF rahlfs_verse_words # <<>> \/ swete_verse_words # <<>>
    THEN VerseTypo(word, rahlfs_ref, swete_ref,
                   check_typos_in_scope(word, rahlfs_verse_words, swete_verse_words))
    ELSE AreaOf(word, rahlfs_ref, swete_ref)

VerseSearch(word, rahlfs_ref, swete_ref, rahlfs_verse_words, swete_verse_words) ==
    IF rahlfs_verse_words # <<>> \/ swete_verse_words # <<>>
    THEN VerseVariation(word, rahlfs_ref, swete_ref, rahlfs_verse_words,
                        swete_verse_words,
                        check_legitimate_variations_in_scope(word, rahlfs_verse_words,
                                                             swete_verse_words))
    ELSE AreaOf(word, rahlfs_ref, swete_ref)

Raised ==
    { [is_typo |-> FALSE, closest_match |-> NoneStr, similarity |-> Zero,
       verse_match |-> FALSE, area_match |-> FALSE, legitimate_variation |-> FALSE,
       raised |-> TRUE] }

\* a faulty variant: the ValueError of the conversion is not caught
ScopedSearchUncaught(word, rahlfs_ref, swete_ref) ==
    IF rahlfs_ref.raised \/ swete_ref.raised THEN Raised
    ELSE VerseSearch(word, rahlfs_ref.ref, swete_ref.ref,
                     get_verse_words(rahlfs_ref.ref, RAHLFS_VERSE_MAP,
                                     RAHLFS_SORTED_VERSES, RAHLFS_WORDS_DICT),
                     get_verse_words(swete_ref.ref, SWETE_VERSE_MAP,
                                     SWETE_SORTED_VERSES, SWETE_WORDS_DICT))

\* the body of the try block; a conversion that raises goes to "except: pass"
ScopedSearch(word, rahlfs_ref, swete_ref) ==
    IF rahlfs_ref.raised \/ swete_ref.raised THEN BroadSearch(word)
    ELSE VerseSearch(word, rahlfs_ref.ref, swete_ref.ref,
                     get_verse_words(rahlfs_ref.ref, RAHLFS_VERSE_MAP,
                                     RAHLFS_SORTED_VERSES, RAHLFS_WORDS_DICT),
                     get_verse_words(swete_ref.ref, SWETE_VERSE_MAP,
                                     SWETE_SORTED_VERSES, SWETE_WORDS_DICT))

is_likely_typo(word, brenton_book, brenton_ch, brenton_vs) ==
    IF HaveVerseData(brenton_book, brenton_ch, brenton_vs)
    THEN ScopedSearch(word,
             convert_brenton_reference_to_rahlfs(brenton_book, brenton_ch, brenton_vs),
             convert_brenton_reference_to_swete(brenton_book, brenton_ch, brenton_vs))
    ELSE BroadSearch(word)

\* a faulty variant: no second try with the movable nu
KnownAsIs(normalized) ==
    DictHas(RAHLFS_WORDS, normalized) \/ DictHas(SWETE_WORDS, normalized)

Known(normalized) ==
    \/ DictHas(RAHLFS_WORDS, normalized) \/ DictHas(SWETE_WORDS, normalized)
    \/ DictHas(RAHLFS_WORDS, Append(normalized, "ν"))
    \/ DictHas(SWETE_WORDS, Append(normalized, "ν"))

is_word_in_sets(word) == Known(strip_diacritics(lower(word)))

is_likely_proper_name(word) == Len(word) > 0 /\ word[1] \in UpperCase

is_likely_number_word(word) ==
    \E k \in DOMAIN number_patterns :
        Contains(strip_diacritics(lower(word)), strip_diacritics(lower(number_patterns[k])))

(***************************************************************************)
(* valid_variation_patterns.py: the pairwise checks.                       *)
(***************************************************************************)
\* pattern1 in word1, pattern2 in word2, and replacing either way gives the other word
BothWays(word1_norm, word2_norm, pattern1, pattern2) ==
    /\ Contains(word1_norm, pattern1) /\ Contains(word2_norm, pattern2)
    /\ \/ Replace(word1_norm, pattern1, pattern2) = word2_norm
       \/ Replace(word2_norm, pattern2, pattern1) = word1_norm

LambdaFutureNorm(word1_norm, word2_norm) ==
    \/ \E k \in DOMAIN LAMBDA_FUTURE_PATTERNS :
          BothWays(word1_norm, word2_norm,
                   LAMBDA_FUTURE_PATTERNS[k][1], LAMBDA_FUTURE_PATTERNS[k][2])
    \/ \E j \in 1..(Len(LAMBDA_COMPOUNDS) \div 2) :
          BothWays(word1_norm, word2_norm,
                   LAMBDA_COMPOUNDS[2 * j - 1], LAMBDA_COMPOUNDS[2 * j])

has_lambda_future_variation(word1, word2) ==
    LambdaFutureNorm(strip_accents(lower(word1)), strip_accents(lower(word2)))

\* either pattern in each word, and replacing either way gives the other word
EitherIn(word1_norm, word2_norm, patterns) ==
    \E k \in DOMAIN patterns :
        /\ Contains(word1_norm, patterns[k][1]) \/ Contains(word1_norm, patterns[k][2])
        /\ Contains(word2_norm, patterns[k][1]) \/ Contains(word2_norm, patterns[k][2])
        /\ \/ Replace(word1_norm, patterns[k][1], patterns[k][2]) = word2_norm
           \/ Replace(word2_norm, patterns[k][2], patterns[k][1]) = word1_norm

has_destruction_verb_variation(word1, word2) ==
    EitherIn(strip_accents(lower(word1)), strip_accents(lower(word2)),
             DESTRUCTION_VERB_VARIATIONS)

has_generation_variation(word1, word2) ==
    EitherIn(strip_accents(lower(word1)), strip_accents(lower(word2)),
             GENERATION_VARIATIONS)

\* pattern1 in word1, pattern2 in word2, and word1 with pattern1 replaced is word2
OneWay(word1_norm, word2_norm, patterns) ==
    \E k \in DOMAIN patterns :
        /\ Contains(word1_norm, patterns[k][1]) /\ Contains(word2_norm, patterns[k][2])
        /\ Replace(word1_norm, patterns[k][1], patterns[k][2]) = word2_norm

Variation(variation_type) == [is_variation |-> TRUE, variation_type |-> variation_type]

NoVariation == [is_variation |-> FALSE, variation_type |-> "None"]

PatternVariation(word1, word1_norm, word2_norm) ==
    IF OneWay(word1_norm, word2_norm, LOAN_VERB_VARIATIONS) THEN Variation("loan_verb")
    ELSE IF OneWay(word1_norm, word2_norm, COMMAND_VERB_VARIATIONS)
    THEN Variation("command_verb")
    ELSE IF OneWay(word1_norm, word2_norm, CIRCUMCISION_VARIATIONS)
    THEN Variation("circumcision_verb")
    ELSE IF OneWay(word1_norm, word2_norm, VOWEL_CONTRACTIONS)
    THEN Variation("vowel_contraction")
    ELSE IF OneWay(word1_norm, word2_norm, DIPHTHONG_VARIATIONS)
    THEN Variation("diphthong_variation")
    ELSE IF OneWay(word1_norm, word2_norm, ABLAUT_VARIATIONS) THEN Variation("ablaut")
    ELSE IF OneWay(word1_norm, word2_norm, DIALECTAL_LETTER_VARIATIONS)
    THEN Variation("dialectal_consonant")
    ELSE IF word2_norm \in generate_variation_list(word1, "all")
    THEN Variation("combined_variation")
    ELSE NoVariation

is_likely_legitimate_variation(word1, word2) ==
    IF has_lambda_future_variation(word1, word2) THEN Variation("lambda_future")
    ELSE IF has_destruction_verb_variation(word1, word2) THEN Variation("destruction_verb")
    ELSE IF has_generation_variation(word1, word2) THEN Variation("generation_word")
    ELSE PatternVariation(word1, strip_accents(lower(word1)), strip_accents(lower(word2)))

(***************************************************************************)
(* process_bible_file.  A line of the Bible file is the record of what     *)
(* extract_book_name, extract_chapter_number, extract_verse_number and     *)
(* extract_greek_words return for it:                                      *)
(*   [book, chapter, verse, greek_words]                                   *)
(* with NoneBook and 0 for None.                                           *)
(***************************************************************************)
Digits == <<"0", "1", "2", "3", "4", "5", "6", "7", "8", "9">>

\* f"{similarity:.2f}": round to hundredths, ties to even
Format2(similarity) ==
    LET scaled == similarity.num * 100
        q == scaled \div similarity.den
        r == scaled % similarity.den
        h == IF 2 * r > similarity.den \/ (2 * r = similarity.den /\ q % 2 = 1)
             THEN q + 1 ELSE q
    IN  <<Digits[(h \div 100) + 1], ".", Digits[((h \div 10) % 10) + 1], Digits[(h % 10) + 1]>>

\* f"{current_book} {current_chapter}:{current_verse}"
VerseRef(book, chapter, verse) == <<book, " ", chapter, ":", verse>>

HaveContext(book, chapter, verse) ==
    book \notin {NoneBook, ""} /\ chapter # 0 /\ verse # 0

Accepted(word) ==
    ACCEPTED_WORDS # {} /\ strip_diacritics(lower(word)) \in ACCEPTED_WORDS

\* a faulty variant: a word examined in one verse is skipped in every verse
ExaminedAnywhere(word, book, chapter, verse) ==
    /\ ALREADY_EXAMINED # <<>>
    /\ HaveContext(book, chapter, verse)
    /\ \E key \in DictKeys(ALREADY_EXAMINED) : key[2] = strip_diacritics(lower(word))

Examined(word, book, chapter, verse) ==
    /\ ALREADY_EXAMINED # <<>>
    /\ HaveContext(book, chapter, verse)
    /\ DictHas(ALREADY_EXAMINED,
               <<VerseRef(book, chapter, verse), strip_diacritics(lower(word))>>)

Entry(n, line, word, book, chapter, verse, check_typos, result) ==
    [line_num |-> n,
     verse_ref |-> IF HaveContext(book, chapter, verse)
                   THEN VerseRef(book, chapter, verse) ELSE <<"Unknown">>,
     word |-> word,
     full_line |-> line,
     is_name |-> IF check_typos THEN is_likely_proper_name(word) ELSE FALSE,
     is_number |-> IF check_typos THEN is_likely_number_word(word) ELSE FALSE,
     is_typo |-> result.is_typo,
     closest_match |-> IF Truthy(result.closest_match) THEN result.closest_match ELSE <<>>,
     similarity |-> IF RatioGT(result.similarity, Zero)
                    THEN Format2(result.similarity) ELSE <<>>,
     verse_match |-> result.verse_match,
     area_match |-> result.area_match,
     legitimate_variation |-> result.legitimate_variation]

\* the body of "for word in greek_words" for one word: the states it can leave
\* s = [missing_words, words_checked, typos_found, raised]
ProcessWord(s, n, line, word, book, chapter, verse, check_typos) ==
    IF s.raised \/ Accepted(word) \/ Examined(word, book, chapter, verse)
       \/ is_word_in_sets(word)
    THEN {s}
    ELSE { [missing_words |->
               IF result.raised THEN s.missing_words
               ELSE Append(s.missing_words,
                           Entry(n, line, word, book, chapter, verse, check_typos, result)),
            words_checked |-> s.words_checked + (IF check_typos THEN 1 ELSE 0),
            typos_found |-> s.typos_found + (IF result.is_typo THEN 1 ELSE 0),
            raised |-> result.raised] :
           result \in IF check_typos
                      THEN is_likely_typo(word, book, chapter, verse)
                      ELSE Results(FALSE, {NoneStr}, Zero, FALSE, FALSE, FALSE) }

RECURSIVE ProcessWords(_, _, _, _, _, _, _, _)
ProcessWords(s, n, line, i, book, chapter, verse, check_typos) ==
    IF i > Len(line.greek_words) THEN {s}
    ELSE UNION { ProcessWords(t, n, line, i + 1, book, chapter, verse, check_typos) :
                 t \in ProcessWord(s, n, line, line.greek_words[i], book, chapter,
                                   verse, check_typos) }

(***************************************************************************)
(* The report files written at the end of process_bible_file.              *)
(***************************************************************************)
YesNo(b) == IF b THEN "Yes" ELSE "No"

NoFile == <<"no file">>

MissingRows(entries) ==
    [i \in DOMAIN entries |->
        <<entries[i].line_num, entries[i].verse_ref, entries[i].word, entries[i].full_line>>]

TypoCheckRows(entries) ==
    [i \in DOMAIN entries |->
        <<entries[i].line_num, entries[i].verse_ref, entries[i].word,
          YesNo(entries[i].is_name), YesNo(entries[i].is_number), YesNo(entries[i].is_typo),
          entries[i].closest_match, entries[i].similarity,
          YesNo(entries[i].verse_match), YesNo(entries[i].area_match),
          YesNo(entries[i].legitimate_variation), entries[i].full_line>>]

LikelyTypos(entries) ==
    SelectSeq(entries, LAMBDA e : /\ e.is_typo /\ ~e.is_name /\ ~e.is_number
                                  /\ ~e.legitimate_variation)

LikelyTypoRows(entries) ==
    [i \in DOMAIN entries |->
        <<entries[i].line_num, entries[i].verse_ref, entries[i].word,
          entries[i].closest_match, entries[i].similarity,
          YesNo(entries[i].verse_match), YesNo(entries[i].area_match),
          entries[i].full_line>>]

LegitimateVariations(entries) == SelectSeq(entries, LAMBDA e : e.legitimate_variation)

VariationRows(entries) ==
    [i \in DOMAIN entries |->
        <<entries[i].line_num, entries[i].verse_ref, entries[i].word,
          entries[i].closest_match,
          YesNo(entries[i].verse_match), YesNo(entries[i].area_match),
          entries[i].full_line>>]

Reports(entries, check_typos) ==
    [missing_words |-> MissingRows(entries),
     typo_check |-> IF check_typos THEN TypoCheckRows(entries) ELSE NoFile,
     likely_typos |-> IF check_typos THEN LikelyTypoRows(LikelyTypos(entries)) ELSE NoFile,
     legitimate_variations |->
        IF check_typos /\ LegitimateVariations(entries) # <<>>
        THEN VariationRows(LegitimateVariations(entries)) ELSE NoFile]

RahlfsRows ==
    <<<<IntCell(1), TextCell(<<"U1F04", "ν", "θ", "ρ", "ω", "π", "ο", "ς">>)>>,
      <<IntCell(2), TextCell(<<"U1F10", "σ", "τ", "ι">>)>>,
      <<IntCell(3), TextCell(<<"ε", "U1F36", "π", "ε", "ν">>)>>,
      <<IntCell(4), TextCell(<<"δ", "ι", "κ", "α", "ι", "ο", "σ", "ύ", "ν", "η">>)>>,
      <<IntCell(5), TextCell(<<"U1F00", "π", "έ", "δ", "ω", "κ", "ε", "ν">>)>>,
      <<IntCell(10), TextCell(<<"κ", "α", "U1F76">>)>>,
      <<IntCell(11), TextCell(<<"λ", "ή", "ψ", "ε", "τ", "α", "ι">>)>>,
      <<IntCell(12), TextCell(<<"π", "ε", "ρ", "ι">>)>>,
      <<IntCell(13), TextCell(<<"τ", "ε", "μ", "ε", "ι", "ν">>)>>,
      <<IntCell(20), TextCell(<<"λ", "ό", "γ", "ο", "ς">>)>>,
      <<IntCell(21), TextCell(<<"θ", "ε", "ο", "ῦ">>)>>,
      <<IntCell(35), TextCell(<<"γ", "ῆ">>)>>,
      <<IntCell(50), TextCell(<<"ο", "U1F50", "ρ", "α", "ν", "ό", "ς">>)>>>>

SweteRows ==
    <<<<IntCell(1), TextCell(<<"U1F04", "ν", "θ", "ρ", "ω", "π", "ο", "ς">>)>>,
      <<IntCell(2), TextCell(<<"U1F10", "σ", "τ", "ι">>)>>,
      <<IntCell(3), TextCell(<<"ε", "U1F36", "π", "ε", "ν">>)>>,
      <<IntCell(10), TextCell(<<"κ", "α", "U1F76">>)>>,
      <<IntCell(11), TextCell(<<"λ", "ή", "ψ", "ῃ">>)>>,
      <<IntCell(12), TextCell(<<"π", "ε", "ρ", "ι">>)>>,
      <<IntCell(13), TextCell(<<"τ", "ε", "μ", "ε", "ι", "ν">>)>>,
      <<IntCell(20), TextCell(<<"λ", "ό", "γ", "ο", "ν">>)>>,
      <<IntCell(21), TextCell(<<"θ", "ε", "ό", "ς">>)>>,
      <<IntCell(35), TextCell(<<"γ", "ῆ">>)>>,
      <<IntCell(50), TextCell(<<"ο", "U1F50", "ρ", "α", "ν", "ό", "ν">>)>>>>

BibleLines ==
    <<[book |-> NoneBook, chapter |-> 0, verse |-> 0,
       greek_words |-> <<<<"λ", "ο", "γ", "ς">>, <<"δ", "ι", "κ", "α", "ι", "ο", "σ">>, <<"ε", "ι", "π", "ι">>, <<"ε", "δ", "ω", "κ", "ε">>>>],
      [book |-> "ΒΙΒΛΟΣ", chapter |-> 0, verse |-> 0,
       greek_words |-> <<>>],
      [book |-> NoneBook, chapter |-> 1, verse |-> 1,
       greek_words |-> <<<<"λ", "ο", "γ", "ς">>, <<"λ", "η", "μ", "ψ", "ε", "τ", "α", "ι">>>>],
      [book |-> NoneBook, chapter |-> 0, verse |-> 2,
       greek_words |-> <<<<"Δ", "έ", "κ", "α">>, <<"ζ", "ζ", "ζ">>>>],
      [book |-> "ΝΕΕΜΙΑΣ", chapter |-> 0, verse |-> 0,
       greek_words |-> <<>>],
      [book |-> NoneBook, chapter |-> 1, verse |-> 0,
       greek_words |-> <<<<"λ", "ο", "γ", "ς">>>>],
      [book |-> "ΓΕΝΕΣΙΣ", chapter |-> 0, verse |-> 0,
       greek_words |-> <<>>],
      [book |-> NoneBook, chapter |-> 0, verse |-> 0,
       greek_words |-> <<<<"λ", "ο", "γ", "ς">>>>],
      [book |-> NoneBook, chapter |-> 1, verse |-> 0,
       greek_words |-> <<<<"Κ", "α", "U1F76">>, <<"ε", "U1F36", "π", "ε">>, <<"U1F10", "σ", "τ", "ι", "ν">>, <<"λ", "η", "μ", "ψ", "ε", "τ", "α", "ι">>, <<"π", "ε", "ρ", "ι", "τ", "ε", "μ", "ε", "ι", "ν">>>>],
      [book |-> NoneBook, chapter |-> 0, verse |-> 2,
       greek_words |-> <<<<"λ", "ο", "γ", "ς">>, <<"α", "ν", "θ", "ρ", "ω", "π", "ς">>, <<"ζ", "ζ", "ζ">>, <<"λ", "ο", "γ", "ο", "σ", "θ", "ε", "ο", "υ">>>>],
      [book |-> NoneBook, chapter |-> 0, verse |-> 3,
       greek_words |-> <<<<"λ", "ο", "γ", "ς">>, <<"π", "ε", "ρ", "ι", "τ", "ε", "μ", "ε", "ι", "ν">>, <<"λ", "η", "μ", "ψ", "η">>>>],
      [book |-> NoneBook, chapter |-> 0, verse |-> 4,
       greek_words |-> <<<<"λ", "ο", "γ", "ς">>, <<"α", "ν", "θ", "ρ", "ω", "π", "ς">>>>]>>

AcceptedLines ==
    <<<<"#", " ", "a", "c", "c", "e", "p", "t", "e", "d">>, <<"Ζ", "ζ", "ζ">>, <<>>>>

ExaminedRows ==
    <<<<VerseRef("ΓΕΝΕΣΙΣ", 1, 2), <<"Λ", "ο", "γ", "ς">>, <<"λ", "ό", "γ", "ο", "ς">>>>,
      <<VerseRef("ΓΕΝΕΣΙΣ", 1, 3)>>>>

(***************************************************************************)
(* The program: main loads the indices, process_bible_file reads the Bible *)
(* file line by line and writes the reports.                               *)
(***************************************************************************)
File(rows) == [exists |-> TRUE, rows |-> rows]

Missing == [exists |-> FALSE, rows |-> <<>>]

\* Rahlfs: verse_ref, word_id
RahlfsVersification ==
    <<<<TextCell(<<"Gen", ".", 1, ".", 1>>), IntCell(10)>>,
      <<TextCell(<<"Gen", ".", 1, ".", 2>>), IntCell(20)>>,
      <<TextCell(<<"Gen", ".", 1, ".", 3>>), IntCell(35)>>>>

\* Swete: word_id, verse_ref
SweteVersification ==
    <<<<IntCell(10), TextCell(<<"Gen", ".", 1, ":", 1>>)>>,
      <<IntCell(20), TextCell(<<"Gen", ".", 1, ":", 2>>)>>,
      <<IntCell(35), TextCell(<<"Gen", ".", 1, ":", 3>>)>>>>

MaxLines == 11

Bible == SubSeq(BibleLines, 1, Min(MaxLines, Len(BibleLines)))

\* every file present and typo checking on, but for at most MaxDeviations of them
AllInputs ==
    [rahlfs : {File(RahlfsRows), Missing},
     swete : {File(SweteRows), Missing},
     rahlfs_versification : {File(RahlfsVersification), Missing},
     swete_versification : {File(SweteVersification), Missing},
     accepted_words : {File(AcceptedLines), Missing},
     already_examined : {File(ExaminedRows), Missing},
     bible : {Bible},
     check_typos : BOOLEAN]

Deviations(i) ==
    Cardinality({ f \in {"rahlfs", "swete", "rahlfs_versification", "swete_versification",
                          "accepted_words", "already_examined"} : ~i[f].exists })
    + (IF i.check_typos THEN 0 ELSE 1)

MaxDeviations == 2

Inputs == { i \in AllInputs : Deviations(i) <= MaxDeviations }

NoCall == fn = "none" /\ arg = <<>> /\ out = <<>>

Init ==
    /\ input \in Inputs
    /\ RAHLFS_WORDS_DICT = <<>> /\ SWETE_WORDS_DICT = <<>>
    /\ RAHLFS_WORDS = <<>> /\ SWETE_WORDS = <<>>
    /\ RAHLFS_VERSE_MAP = <<>> /\ SWETE_VERSE_MAP = <<>>
    /\ RAHLFS_SORTED_VERSES = <<>> /\ SWETE_SORTED_VERSES = <<>>
    /\ ACCEPTED_WORDS = {} /\ ALREADY_EXAMINED = <<>>
    /\ pc = "main" /\ line_num = 0
    /\ current_book = NoneBook /\ current_chapter = 0 /\ current_verse = 0
    /\ missing_words = <<>> /\ words_checked = 0 /\ typos_found = 0
    /\ reports = <<>>
    /\ NoCall

main ==
    /\ pc = "main"
    /\ RAHLFS_WORDS_DICT' = load_words_with_ids(input.rahlfs)
    /\ SWETE_WORDS_DICT' = load_words_with_ids(input.swete)
    /\ RAHLFS_WORDS' = derive_word_set(load_words_with_ids(input.rahlfs))
    /\ SWETE_WORDS' = derive_word_set(load_words_with_ids(input.swete))
    /\ ACCEPTED_WORDS' = load_accepted_words(input.accepted_words)
    /\ ALREADY_EXAMINED' = load_already_examined(input.already_examined)
    /\ IF input.check_typos
       THEN /\ RAHLFS_VERSE_MAP' = load_versification(input.rahlfs_versification).verse_map
            /\ RAHLFS_SORTED_VERSES' =
                  load_versification(input.rahlfs_versification).sorted_verses
            /\ SWETE_VERSE_MAP' = load_versification(input.swete_versification).verse_map
            /\ SWETE_SORTED_VERSES' =
                  load_versification(input.swete_versification).sorted_verses
       ELSE UNCHANGED <<RAHLFS_VERSE_MAP, RAHLFS_SORTED_VERSES,
                        SWETE_VERSE_MAP, SWETE_SORTED_VERSES>>
    /\ pc' = "process"
    /\ UNCHANGED <<input, line_num, current_book, current_chapter, current_verse,
                   missing_words, words_checked, typos_found, reports, call>>

\* a faulty variant: the words of a line that was read are added to the
\* accepted words
ProcessLineAccepting ==
    /\ pc = "process"
    /\ line_num < Len(input.bible)
    /\ LET line == input.bible[line_num + 1]
           chapter == IF line.chapter # 0 THEN line.chapter ELSE current_chapter
           verse == IF line.verse # 0 THEN line.verse
                    ELSE IF line.chapter # 0 THEN 1 ELSE current_verse
       IN  /\ line_num' = line_num + 1
           /\ IF line.book \notin {NoneBook, ""}
              THEN /\ current_book' = line.book
                   /\ current_chapter' = 0
                   /\ current_verse' = 0
                   /\ UNCHANGED <<missing_words, words_checked, typos_found, pc>>
              ELSE /\ current_chapter' = chapter
                   /\ current_verse' = verse
                   /\ \E s \in ProcessWords([missing_words |-> missing_words,
                                             words_checked |-> words_checked,
                                             typos_found |-> typos_found,
                                             raised |-> FALSE],
                                            line_num + 1, line, 1, current_book,
                                            chapter, verse, input.check_typos) :
                         /\ missing_words' = s.missing_words
                         /\ words_checked' = s.words_checked
                         /\ typos_found' = s.typos_found
                         /\ pc' = IF s.raised THEN "crashed" ELSE pc
                   /\ UNCHANGED current_book
    /\ ACCEPTED_WORDS' =
          ACCEPTED_WORDS
          \cup { strip_diacritics(lower(input.bible[line_num + 1].greek_words[k])) :
                   k \in DOMAIN input.bible[line_num + 1].greek_words }
    /\ UNCHANGED <<input, RAHLFS_WORDS_DICT, SWETE_WORDS_DICT, RAHLFS_WORDS, SWETE_WORDS,
                   RAHLFS_VERSE_MAP, SWETE_VERSE_MAP, RAHLFS_SORTED_VERSES,
                   SWETE_SORTED_VERSES, ALREADY_EXAMINED, reports, call>>

\* one iteration of "for line_num, line in enumerate(f, 1)"
\* a faulty variant: a book heading leaves the chapter and the verse as they were
ProcessLineKeepingPlace ==
    /\ pc = "process"
    /\ line_num < Len(input.bible)
    /\ LET line == input.bible[line_num + 1]
           chapter == IF line.chapter # 0 THEN line.chapter ELSE current_chapter
           verse == IF line.verse # 0 THEN line.verse
                    ELSE IF line.chapter # 0 THEN 1 ELSE current_verse
       IN  /\ line_num' = line_num + 1
           /\ IF line.book \notin {NoneBook, ""}
              THEN /\ current_book' = line.book
                   /\ UNCHANGED <<current_chapter, current_verse>>
                   /\ UNCHANGED <<missing_words, words_checked, typos_found, pc>>
              ELSE /\ current_chapter' = chapter
                   /\ current_verse' = verse
                   /\ \E s \in ProcessWords([missing_words |-> missing_words,
                                             words_checked |-> words_checked,
                                             typos_found |-> typos_found,
                                             raised |-> FALSE],
                                            line_num + 1, line, 1, current_book,
                                            chapter, verse, input.check_typos) :
                         /\ missing_words' = s.missing_words
                         /\ words_checked' = s.words_checked
                         /\ typos_found' = s.typos_found
                         /\ pc' = IF s.raised THEN "crashed" ELSE pc
                   /\ UNCHANGED current_book
    /\ UNCHANGED <<input, globals, reports, call>>

ProcessLine ==
    /\ pc = "process"
    /\ line_num < Len(input.bible)
    /\ LET line == input.bible[line_num + 1]
           chapter == IF line.chapter # 0 THEN line.chapter ELSE current_chapter
           verse == IF line.verse # 0 THEN line.verse
                    ELSE IF line.chapter # 0 THEN 1 ELSE current_verse
       IN  /\ line_num' = line_num + 1
           /\ IF line.book \notin {NoneBook, ""}
              THEN /\ current_book' = line.book
                   /\ current_chapter' = 0
                   /\ current_verse' = 0
                   /\ UNCHANGED <<missing_words, words_checked, typos_found, pc>>
              ELSE /\ current_chapter' = chapter
                   /\ current_verse' = verse
                   /\ \E s \in ProcessWords([missing_words |-> missing_words,
                                             words_checked |-> words_checked,
                                             typos_found |-> typos_found,
                                             raised |-> FALSE],
                                            line_num + 1, line, 1, current_book,
                                            chapter, verse, input.check_typos) :
                         /\ missing_words' = s.missing_words
                         /\ words_checked' = s.words_checked
                         /\ typos_found' = s.typos_found
                         /\ pc' = IF s.raised THEN "crashed" ELSE pc
                   /\ UNCHANGED current_book
    /\ UNCHANGED <<input, globals, reports, call>>

WriteResults ==
    /\ pc = "process"
    /\ line_num = Len(input.bible)
    /\ reports' = Reports(missing_words, input.check_typos)
    /\ pc' = "done"
    /\ UNCHANGED <<input, globals, line_num, current_book, current_chapter,
                   current_verse, missing_words, words_checked, typos_found, call>>

Next == main \/ ProcessLine \/ WriteResults

Spec == Init /\ [][Next]_vars

(***************************************************************************)
(* Calls of single functions.  fn is the function called last, arg its     *)
(* arguments and out what it returned; the program state stays as          *)
(* constructed.                                                            *)
(***************************************************************************)
Idle ==
    /\ input \in { i \in Inputs : Deviations(i) = 0 }
    /\ RAHLFS_WORDS_DICT = <<>> /\ SWETE_WORDS_DICT = <<>>
    /\ RAHLFS_WORDS = <<>> /\ SWETE_WORDS = <<>>
    /\ RAHLFS_VERSE_MAP = <<>> /\ SWETE_VERSE_MAP = <<>>
    /\ RAHLFS_SORTED_VERSES = <<>> /\ SWETE_SORTED_VERSES = <<>>
    /\ ACCEPTED_WORDS = {} /\ ALREADY_EXAMINED = <<>>
    /\ pc = "call" /\ line_num = 0
    /\ current_book = NoneBook /\ current_chapter = 0 /\ current_verse = 0
    /\ missing_words = <<>> /\ words_checked = 0 /\ typos_found = 0
    /\ reports = <<>>

Called(f, a, o) ==
    /\ fn' = f /\ arg' = a /\ out' = o
    /\ UNCHANGED <<input, globals, locals>>

Return ==
    /\ fn # "none"
    /\ fn' = "none" /\ arg' = <<>> /\ out' = <<>>
    /\ UNCHANGED <<input, globals, locals>>

(***************************************************************************)
(* The variation engine on words over a small alphabet and on sample       *)
(* words of the text.                                                      *)
(***************************************************************************)
MaxWordLen == 2

Letters == {"ε", "η", "ι", "ν"}

ShortWords == UNION { [1..n -> Letters] : n \in 1..MaxWordLen }

SampleWords ==
    { <<"λ", "η", "μ", "ψ", "η">>, <<"Λ", "ή", "ψ", "ε", "ι">>, <<"ε", "σ", "τ", "ι", "ν">> }

EngineWords == ShortWords \cup SampleWords

Selectors ==
    {"lambda_future", "destruction", "generation", "loan", "command", "circumcision",
     "vowel", "aorist", "dialectal", "compound", "participle", "all"}

InitVar == Idle /\ NoCall

Generate ==
    /\ fn = "none"
    /\ \E w \in EngineWords, variation_type \in Selectors :
           Called("generate_variation_list", <<w, variation_type>>,
                  generate_variation_list(w, variation_type))

Pairwise ==
    /\ fn = "none"
    /\ \E word1 \in EngineWords, word2 \in EngineWords :
           Called("is_likely_legitimate_variation", <<word1, word2>>,
                  is_likely_legitimate_variation(word1, word2))

NextVar == Generate \/ Pairwise \/ Return

SpecVar == InitVar /\ [][NextVar]_vars

(***************************************************************************)
(* The reference converters on every book of the tables, one unknown book  *)
(* and the first chapters and verses.                                      *)
(***************************************************************************)
MaxChapter == 3

MaxVerse == 2

Books == DOMAIN BRENTON_TO_RAHLFS \cup DOMAIN BRENTON_TO_SWETE \cup {"ΒΙΒΛΟΣ"}

InitConv == Idle /\ NoCall

ConvertChapterToRahlfs ==
    /\ fn = "none"
    /\ \E brenton_book \in Books, brenton_chapter \in 1..MaxChapter :
           Called("convert_brenton_chapter_to_rahlfs", <<brenton_book, brenton_chapter>>,
                  convert_brenton_chapter_to_rahlfs(brenton_book, brenton_chapter))

ConvertChapterToSwete ==
    /\ fn = "none"
    /\ \E brenton_book \in Books, brenton_chapter \in 1..MaxChapter :
           Called("convert_brenton_chapter_to_swete", <<brenton_book, brenton_chapter>>,
                  convert_brenton_chapter_to_swete(brenton_book, brenton_chapter))

ConvertReferenceToRahlfs ==
    /\ fn = "none"
    /\ \E brenton_book \in Books, chapter \in 1..MaxChapter, verse \in 1..MaxVerse :
           Called("convert_brenton_reference_to_rahlfs", <<brenton_book, chapter, verse>>,
                  convert_brenton_reference_to_rahlfs(brenton_book, chapter, verse))

ConvertReferenceToSwete ==
    /\ fn = "none"
    /\ \E brenton_book \in Books, chapter \in 1..MaxChapter, verse \in 1..MaxVerse :
           Called("convert_brenton_reference_to_swete", <<brenton_book, chapter, verse>>,
                  convert_brenton_reference_to_swete(brenton_book, chapter, verse))

NextConv ==
    \/ ConvertChapterToRahlfs
    \/ ConvertChapterToSwete
    \/ ConvertReferenceToRahlfs
    \/ ConvertReferenceToSwete
    \/ Return

SpecConv == InitConv /\ [][NextConv]_vars

(***************************************************************************)
(* The scoped lookups on small indices: word IDs 1..MaxId, each absent or  *)
(* one of a few words, and up to two verses starting anywhere; and on the  *)
(* two indices of the worked examples.                                     *)
(***************************************************************************)
MaxId == 3

MaxRange == 1

\* the entry load_words_with_ids makes for a word
WordData(word) ==
    [normalized |-> strip_diacritics(lower(normalize_text(word))),
     original |-> lower(normalize_text(word))]

ScopeWords == { <<"ά">>, <<"α", "α">>, <<"β">> }

Absent == <<>>

\* the word-ID map of a file with the words of f at their IDs, in ID order
RECURSIVE WordsDictOf(_, _, _)
WordsDictOf(f, word_id, last_id) ==
    IF word_id > last_id THEN <<>>
    ELSE (IF f[word_id] = Absent THEN <<>> ELSE <<<<word_id, WordData(f[word_id])>>>>)
         \o WordsDictOf(f, word_id + 1, last_id)

Ref(verse) == <<"Gen", ".", 1, ".", verse>>

VerseMaps ==
    {<<>>}
    \cup { <<<<Ref(v), i>>>> : v \in 1..2, i \in 1..MaxId }
    \cup { <<<<Ref(v), i>>, <<Ref(3 - v), j>>>> : v \in 1..2, i \in 1..MaxId, j \in 1..MaxId }

SmallIndices ==
    { [verse_map |-> m, sorted_verses |-> sort_by_word_id(m),
       words_dict |-> WordsDictOf(f, 1, MaxId)] :
      m \in VerseMaps, f \in [1..MaxId -> ScopeWords \cup {Absent}] }

\* verses starting at word IDs 10, 20 and 35 of a corpus with the highest word ID 50
\* and words at the first and last ID of each verse and at one ID between
ExampleIds == <<10, 15, 19, 20, 27, 34, 35, 42, 50>>

ExampleLetters == <<"α", "β", "γ", "δ", "ε", "ζ", "η", "θ">>

ExampleWord(word_id) ==
    <<ExampleLetters[(word_id \div 7) + 1], ExampleLetters[(word_id % 7) + 1]>>

ExampleVerseMap == << <<Ref(1), 10>>, <<Ref(2), 20>>, <<Ref(3), 35>> >>

ExampleIndex ==
    [verse_map |-> ExampleVerseMap,
     sorted_verses |-> sort_by_word_id(ExampleVerseMap),
     words_dict |-> [k \in DOMAIN ExampleIds |->
                       <<ExampleIds[k], WordData(ExampleWord(ExampleIds[k]))>>]]

\* περι at ID 5 and τεμειν at ID 6
CompoundIndex ==
    [verse_map |-> << <<Ref(1), 5>> >>,
     sorted_verses |-> << <<Ref(1), 5>> >>,
     words_dict |-> << <<5, WordData(<<"π", "ε", "ρ", "ι">>)>>,
                       <<6, WordData(<<"τ", "ε", "μ", "ε", "ι", "ν">>)>> >>]

Indices == SmallIndices \cup {ExampleIndex, CompoundIndex}

QueryRefs == { Ref(v) : v \in 1..3 }

InitScope == Idle /\ NoCall

GetVerseWords ==
    /\ fn = "none"
    /\ \E x \in Indices, verse_ref \in QueryRefs :
           Called("get_verse_words",
                  [verse_ref |-> verse_ref, verse_map |-> x.verse_map,
                   sorted_verses |-> x.sorted_verses, words_dict |-> x.words_dict],
                  get_verse_words(verse_ref, x.verse_map, x.sorted_verses, x.words_dict))

GetAreaWords ==
    /\ fn = "none"
    /\ \E x \in Indices, verse_ref \in QueryRefs, verse_range \in 0..MaxRange :
           Called("get_area_words",
                  [verse_ref |-> verse_ref, verse_map |-> x.verse_map,
                   sorted_verses |-> x.sorted_verses, words_dict |-> x.words_dict,
                   verse_range |-> verse_range],
                  get_area_words(verse_ref, x.verse_map, x.sorted_verses, x.words_dict,
                                 verse_range))

NextScope == GetVerseWords \/ GetAreaWords \/ Return

SpecScope == InitScope /\ [][NextScope]_vars

(***************************************************************************)
(* The loaders on small files: rows that are well formed, rows of one      *)
(* column, empty rows and rows whose ID is not an integer, in any order.   *)
(***************************************************************************)
MaxRows == 3

LoadIds == 1..2

LoadWord == <<"ά">>

LoadRefs == { Ref(v) : v \in LoadIds }

WordRows ==
    { <<IntCell(id), TextCell(LoadWord)>> : id \in LoadIds }
    \cup { <<>>, <<TextCell(LoadWord)>>, <<TextCell(<<"x">>), TextCell(LoadWord)>> }

\* verse_ref, word_id (Rahlfs) and word_id, verse_ref (Swete)
VerseRows ==
    { <<TextCell(ref), IntCell(2)>> : ref \in LoadRefs }
    \cup { <<IntCell(1), TextCell(ref)>> : ref \in LoadRefs }
    \cup { <<TextCell(Ref(1))>>, <<TextCell(Ref(1)), TextCell(<<"x">>)>> }

FilesOf(rows) == { File(r) : r \in UNION { [1..n -> rows] : n \in 0..MaxRows } }

InitLoad == Idle /\ NoCall

LoadWords ==
    /\ fn = "none"
    /\ \E file \in FilesOf(WordRows) :
           Called("load_words_with_ids", file, load_words_with_ids(file))

LoadVersification ==
    /\ fn = "none"
    /\ \E file \in FilesOf(VerseRows) :
           Called("load_versification", file, load_versification(file))

NextLoad == LoadWords \/ LoadVersification \/ Return

SpecLoad == InitLoad /\ [][NextLoad]_vars

(***************************************************************************)
(* generate_variation_list step by step.  The body is a fixed sequence of  *)
(* loops "for var in current_variations", one for each pattern table, each *)
(* under the test of its category; a loop fills new_variations, and        *)
(* "current_variations = new_variations" follows it.  During a call out is *)
(* [pass, at, current_variations, new_variations, final_variations]: the   *)
(* table of the loop, whether the loop ("for") or the assignment after it  *)
(* ("assign") comes next, and the sets; final_variations is what the call  *)
(* returns.                                                                *)
(***************************************************************************)
PassCategory ==
    <<"lambda_future", "lambda_future", "destruction", "generation", "loan", "command",
      "circumcision", "vowel", "vowel", "vowel", "aorist", "aorist", "aorist",
      "dialectal", "compound", "participle">>

PassTable ==
    <<LAMBDA_FUTURE_PATTERNS, LAMBDA_COMPOUNDS, DESTRUCTION_VERB_VARIATIONS,
      GENERATION_VARIATIONS, LOAN_VERB_VARIATIONS, COMMAND_VERB_VARIATIONS,
      CIRCUMCISION_VARIATIONS, VOWEL_CONTRACTIONS, DIPHTHONG_VARIATIONS,
      ABLAUT_VARIATIONS, AORIST_PASSIVE_LAMBDA, AORIST_VOWEL_VARIATIONS,
      AORIST_CONSONANT_VARIATIONS, DIALECTAL_LETTER_VARIATIONS,
      COMPOUND_PREFIX_VARIATIONS, PARTICIPLE_VARIATIONS>>

\* the loop over one table
new_variations(pass, current_variations) ==
    IF PassTable[pass] = LAMBDA_COMPOUNDS THEN LambdaCompoundPass(current_variations)
    ELSE IF PassTable[pass] = COMPOUND_PREFIX_VARIATIONS
    THEN CompoundPrefixPass(current_variations)
    ELSE PairPass(current_variations, PassTable[pass])

MovableNuNext == Len(PassTable) + 1

ReturnNext == Len(PassTable) + 2

Frame(pass, at, cur, new) ==
    [pass |-> pass, at |-> at, current_variations |-> cur, new_variations |-> new,
     final_variations |-> {}]

InitPass == Idle /\ NoCall

CallGenerate ==
    /\ fn = "none"
    /\ \E base_word \in EngineWords, variation_type \in Selectors :
          /\ fn' = "generate_variation_list"
          /\ arg' = <<base_word, variation_type>>
          /\ out' = Frame(1, "for", {strip_accents(lower(base_word))}, {})
    /\ UNCHANGED <<input, globals, locals>>

\* the category of the table is not selected: its loop is not run
SkipLoop ==
    /\ fn = "generate_variation_list"
    /\ out.pass \in DOMAIN PassTable /\ out.at = "for"
    /\ ~on(arg[2], PassCategory[out.pass])
    /\ out' = [out EXCEPT !.pass = out.pass + 1]
    /\ UNCHANGED <<input, globals, locals, fn, arg>>

\* new_variations = set(), then the loop over current_variations
ForLoop ==
    /\ fn = "generate_variation_list"
    /\ out.pass \in DOMAIN PassTable /\ out.at = "for"
    /\ on(arg[2], PassCategory[out.pass])
    /\ out' = [out EXCEPT !.at = "assign",
                          !.new_variations = new_variations(out.pass, out.current_variations)]
    /\ UNCHANGED <<input, globals, locals, fn, arg>>

\* current_variations = new_variations
Assign ==
    /\ fn = "generate_variation_list"
    /\ out.pass \in DOMAIN PassTable /\ out.at = "assign"
    /\ out' = [out EXCEPT !.pass = out.pass + 1, !.at = "for",
                          !.current_variations = out.new_variations]
    /\ UNCHANGED <<input, globals, locals, fn, arg>>

\* final_variations
AddMovableNu ==
    /\ fn = "generate_variation_list"
    /\ out.pass = MovableNuNext
    /\ out' = [out EXCEPT !.pass = ReturnNext,
                          !.final_variations = MovableNu(out.current_variations)]
    /\ UNCHANGED <<input, globals, locals, fn, arg>>

ReturnList ==
    /\ fn = "generate_variation_list"
    /\ out.pass = ReturnNext
    /\ fn' = "none" /\ arg' = <<>> /\ out' = <<>>
    /\ UNCHANGED <<input, globals, locals>>

RunsOn == SkipLoop \/ ForLoop \/ Assign \/ AddMovableNu \/ ReturnList

NextPass == CallGenerate \/ SkipLoop \/ ForLoop \/ Assign \/ AddMovableNu \/ ReturnList

\* a call that has begun runs on: every loop is over a finite set and a finite table
SpecPass == InitPass /\ [][NextPass]_vars /\ WF_vars(RunsOn)

(***************************************************************************)
(* The typo test on small word maps: every order of up to MaxDictLen of a  *)
(* few entries, and tokens that are near them with and without the nu.     *)
(***************************************************************************)
MaxDictLen == 2

MatchOriginals ==
    { <<"ε", "ί", "π", "ε", "ν">>, <<"ε", "ί", "π", "ο", "ν">>,
      <<"λ", "ό", "γ", "ο", "ς">>, <<"λ", "ό", "γ", "ο", "ν">>, <<"ε", "π", "ί">> }

\* normalized -> original, as derive_word_set makes it
MatchEntries == { <<strip_diacritics(original), original>> : original \in MatchOriginals }

MatchDicts ==
    UNION { { d \in [1..n -> MatchEntries] : \A i, j \in 1..n : d[i] = d[j] => i = j } :
            n \in 0..MaxDictLen }

MatchTokens ==
    { <<"ε", "ι", "π", "ι">>, <<"ε", "ι", "π", "α">>, <<"Ε", "ί", "π", "ε">>,
      <<"λ", "ο", "γ", "ς">>, <<"λ", "ό", "γ", "ο">>, <<"ε", "π", "α">> }

InitMatch == Idle /\ NoCall

FindBestMatch ==
    /\ fn = "none"
    /\ \E word \in MatchTokens, word_dict \in MatchDicts :
           Called("find_best_match",
                  [word_dict |-> word_dict, normalized |-> strip_diacritics(lower(word))],
                  find_best_match(word_dict, strip_diacritics(lower(word)), Zero))

FindClosestWord ==
    /\ fn = "none"
    /\ \E word \in MatchTokens, word_dict \in MatchDicts :
           Called("find_closest_word", [word |-> word, word_dict |-> word_dict],
                  find_closest_word(word, word_dict))

CheckTyposInScope ==
    /\ fn = "none"
    /\ \E word \in MatchTokens, rahlfs_words \in MatchDicts, swete_words \in MatchDicts :
           Called("check_typos_in_scope",
                  [word |-> word, rahlfs_words |-> rahlfs_words, swete_words |-> swete_words],
                  check_typos_in_scope(word, rahlfs_words, swete_words))

NextMatch == FindBestMatch \/ FindClosestWord \/ CheckTyposInScope \/ Return

SpecMatch == InitMatch /\ [][NextMatch]_vars

(***************************************************************************)
(* Properties.  The rows of the line read last are the calls of            *)
(* is_likely_typo of the last step; a row gives the word and, in its verse *)
(* reference, the book, chapter and verse the call was made with.          *)
(***************************************************************************)
Running == pc \in {"process", "done"}

LastRows == { i \in DOMAIN missing_words : missing_words[i].line_num = line_num }

HasContext(e) == e.verse_ref # <<"Unknown">>

RowBook(e) == IF HasContext(e) THEN e.verse_ref[1] ELSE NoneBook

RowChapter(e) == IF HasContext(e) THEN e.verse_ref[3] ELSE 0

RowVerse(e) == IF HasContext(e) THEN e.verse_ref[5] ELSE 0

RowRahlfsRef(e) == convert_brenton_reference_to_rahlfs(RowBook(e), RowChapter(e), RowVerse(e))

RowSweteRef(e) == convert_brenton_reference_to_swete(RowBook(e), RowChapter(e), RowVerse(e))

\* the call went into the verse and area scopes
Scoped(e) ==
    /\ input.check_typos
    /\ HaveVerseData(RowBook(e), RowChapter(e), RowVerse(e))
    /\ ~RowRahlfsRef(e).raised /\ ~RowSweteRef(e).raised

RahlfsVerse(e) ==
    get_verse_words(RowRahlfsRef(e).ref, RAHLFS_VERSE_MAP, RAHLFS_SORTED_VERSES,
                    RAHLFS_WORDS_DICT)

SweteVerse(e) ==
    get_verse_words(RowSweteRef(e).ref, SWETE_VERSE_MAP, SWETE_SORTED_VERSES,
                    SWETE_WORDS_DICT)

RahlfsArea(e) ==
    get_area_words(RowRahlfsRef(e).ref, RAHLFS_VERSE_MAP, RAHLFS_SORTED_VERSES,
                   RAHLFS_WORDS_DICT, VerseRange)

SweteArea(e) ==
    get_area_words(RowSweteRef(e).ref, SWETE_VERSE_MAP, SWETE_SORTED_VERSES,
                   SWETE_WORDS_DICT, VerseRange)

VariationInVerse(e) ==
    /\ RahlfsVerse(e) # <<>> \/ SweteVerse(e) # <<>>
    /\ check_legitimate_variations_in_scope(e.word, RahlfsVerse(e), SweteVerse(e)).found

TypoInVerse(e) ==
    /\ RahlfsVerse(e) # <<>> \/ SweteVerse(e) # <<>>
    /\ check_typos_in_scope(e.word, RahlfsVerse(e), SweteVerse(e)).found

VariationInArea(e) ==
    /\ RahlfsArea(e) # <<>> \/ SweteArea(e) # <<>>
    /\ check_legitimate_variations_in_scope(e.word, RahlfsArea(e), SweteArea(e)).found

TypoInArea(e) ==
    /\ RahlfsArea(e) # <<>> \/ SweteArea(e) # <<>>
    /\ check_typos_in_scope(e.word, RahlfsArea(e), SweteArea(e)).found

TypoInCorpus(e) == check_typos_in_scope(e.word, RAHLFS_WORDS, SWETE_WORDS).found

\* <<is_typo, verse_match, area_match, legitimate_variation>>
Flags(e) == <<e.is_typo, e.verse_match, e.area_match, e.legitimate_variation>>

FirstSuccess(e) ==
    IF VariationInVerse(e) THEN <<FALSE, TRUE, FALSE, TRUE>>
    ELSE IF TypoInVerse(e) THEN <<TRUE, TRUE, FALSE, FALSE>>
    ELSE IF VariationInArea(e) THEN <<FALSE, FALSE, TRUE, TRUE>>
    ELSE IF TypoInArea(e) THEN <<TRUE, FALSE, TRUE, FALSE>>
    ELSE IF TypoInCorpus(e) THEN <<TRUE, FALSE, FALSE, FALSE>>
    ELSE <<FALSE, FALSE, FALSE, FALSE>>

\* C1: is_likely_typo makes its checks in the order verse variation, verse
\* typo, area variation, area typo, corpus typo and returns the outcome of the
\* first that succeeds; a word with a legitimate variation in its verse comes
\* back with verse_match and without area_match, whatever the area and the
\* corpus hold.
C1_FirstSuccessInOrder ==
    Running =>
        \A i \in LastRows :
            Scoped(missing_words[i]) =>
                /\ Flags(missing_words[i]) = FirstSuccess(missing_words[i])
                /\ VariationInVerse(missing_words[i]) =>
                      /\ missing_words[i].verse_match
                      /\ ~missing_words[i].area_match
                      /\ ~missing_words[i].is_typo

\* a word reported as a variation of its verse although its area holds a
\* variation and its verse and the corpus hold a typo candidate too
C1_Witness ==
    \E i \in LastRows :
        /\ Scoped(missing_words[i])
        /\ missing_words[i].legitimate_variation /\ missing_words[i].verse_match
        /\ TypoInVerse(missing_words[i])
        /\ VariationInArea(missing_words[i])
        /\ TypoInCorpus(missing_words[i])

(***************************************************************************)
(* The words of the lines read so far that are looked up (a \biblebook     *)
(* line is skipped).                                                       *)
(***************************************************************************)
LinesRead == { n \in 1..line_num : input.bible[n].book \in {NoneBook, ""} }

WordsRead ==
    UNION { { input.bible[n].greek_words[k] : k \in DOMAIN input.bible[n].greek_words } :
            n \in LinesRead }

Normalized(word) == strip_diacritics(lower(word))

InIndex(normalized) ==
    normalized \in DictKeys(RAHLFS_WORDS) \cup DictKeys(SWETE_WORDS)

\* C2: a word whose normalized form, or that form with a nu appended, is a
\* key of the Rahlfs or of the Swete index is known, whatever the verse; for
\* such a word process_bible_file writes no row and does not call
\* is_likely_typo (words_checked counts the calls: one for each row).
C2_KnownWordsAreSkipped ==
    Running =>
        /\ \A word \in WordsRead :
              (InIndex(Normalized(word)) \/ InIndex(Append(Normalized(word), "ν")))
                 => is_word_in_sets(word)
        /\ \A i \in DOMAIN missing_words :
              /\ ~InIndex(Normalized(missing_words[i].word))
              /\ ~InIndex(Append(Normalized(missing_words[i].word), "ν"))
        /\ words_checked = IF input.check_typos THEN Len(missing_words) ELSE 0

\* a word read that is in the index only with the nu appended, and no row for it
C2_Witness ==
    /\ pc = "done"
    /\ input.check_typos
    /\ \E word \in WordsRead :
          /\ ~InIndex(Normalized(word))
          /\ InIndex(Append(Normalized(word), "ν"))
          /\ \A i \in DOMAIN missing_words : missing_words[i].word # word

(***************************************************************************)
(* The scoped lookups.  a is the argument record of a call; lo..hi is the  *)
(* range of word IDs stated for the call.                                  *)
(***************************************************************************)
HighestId(words_dict) ==
    IF words_dict = <<>> THEN 0 ELSE MaxWordId(words_dict)

Position(a) == CurrentIdx(a.verse_ref, a.sorted_verses)

\* the last ID before the verse that follows position i, the highest ID after the last verse
LastIdOf(a, i) ==
    IF i < Len(a.sorted_verses) THEN a.sorted_verses[i + 1][2] - 1
    ELSE HighestId(a.words_dict)

VerseFirst(a) == DictGet(a.verse_map, a.verse_ref)

VerseLast(a) == LastIdOf(a, Position(a))

AreaFirst(a) == a.sorted_verses[Max(1, Position(a) - a.verse_range)][2]

AreaLast(a) == LastIdOf(a, Min(Len(a.sorted_verses), Position(a) + a.verse_range))

First(f, a) == IF f = "get_verse_words" THEN VerseFirst(a) ELSE AreaFirst(a)

Last(f, a) == IF f = "get_verse_words" THEN VerseLast(a) ELSE AreaLast(a)

Present(a, lo, hi) == { id \in lo..hi : DictHas(a.words_dict, id) }

\* the pairs of words of lo..hi with no word between them
Neighbours(a, lo, hi) ==
    { p \in Present(a, lo, hi) \X Present(a, lo, hi) :
        /\ p[1] < p[2]
        /\ \A id \in Present(a, lo, hi) : ~(p[1] < id /\ id < p[2]) }

\* the pairs of words with adjacent IDs
AdjacentPairs(a, lo, hi) == { p \in Neighbours(a, lo, hi) : p[2] = p[1] + 1 }

NormalizedAt(a, id) == DictGet(a.words_dict, id).normalized

OriginalAt(a, id) == DictGet(a.words_dict, id).original

PairKey(a, p) == NormalizedAt(a, p[1]) \o NormalizedAt(a, p[2])

PairValue(a, p) == OriginalAt(a, p[1]) \o <<" ">> \o OriginalAt(a, p[2])

KeysOfRange(a, lo, hi) ==
    { NormalizedAt(a, id) : id \in Present(a, lo, hi) }
    \cup { PairKey(a, p) : p \in Neighbours(a, lo, hi) }

VerseCall == fn = "get_verse_words" /\ DictHas(arg.verse_map, arg.verse_ref)

ScopeCall ==
    /\ fn \in {"get_verse_words", "get_area_words"}
    /\ DictHas(arg.verse_map, arg.verse_ref)

ExampleCall(verse) ==
    /\ fn = "get_verse_words"
    /\ arg.verse_ref = Ref(verse)
    /\ arg.verse_map = ExampleIndex.verse_map
    /\ arg.words_dict = ExampleIndex.words_dict

\* the words of the example that are in the result are those with IDs lo..hi
ExampleCovers(lo, hi) ==
    \A k \in DOMAIN ExampleIds :
        WordData(ExampleWord(ExampleIds[k])).normalized \in DictKeys(out)
            <=> ExampleIds[k] \in lo..hi

\* C3: get_verse_words returns the words whose IDs run from the verse's start
\* to the ID before the start of the next verse, and to the highest word ID
\* for the last verse; with verses starting at 10, 20 and 35 and a highest ID
\* of 50 the verse at 20 covers 20..34 and the verse at 35 covers 35..50.
C3_VerseRange ==
    /\ VerseCall => DictKeys(out) = KeysOfRange(arg, VerseFirst(arg), VerseLast(arg))
    /\ ExampleCall(1) => ExampleCovers(10, 19)
    /\ ExampleCall(2) => ExampleCovers(20, 34)
    /\ ExampleCall(3) => ExampleCovers(35, 50)

\* the verse at 20 of the example, and a verse of a small index that is not
\* the last and has a word at the start of the next verse
C3_Witness ==
    \/ ExampleCall(2) /\ out # <<>>
    \/ /\ VerseCall /\ out # <<>>
       /\ Position(arg) < Len(arg.sorted_verses)
       /\ DictHas(arg.words_dict, VerseLast(arg) + 1)

LaterPairs(a, lo, hi, p) ==
    { q \in Neighbours(a, lo, hi) : PairKey(a, q) = PairKey(a, p) /\ q[1] > p[1] }

\* the pair that wrote the entry of p's key last
LastPair(a, lo, hi, p) ==
    IF LaterPairs(a, lo, hi, p) = {} THEN p
    ELSE CHOOSE q \in LaterPairs(a, lo, hi, p) :
            \A r \in LaterPairs(a, lo, hi, p) : r[1] <= q[1]

CompoundCall ==
    /\ fn \in {"get_verse_words", "get_area_words"}
    /\ arg.verse_ref = Ref(1)
    /\ arg.verse_map = CompoundIndex.verse_map
    /\ arg.words_dict = CompoundIndex.words_dict

Peritemein == <<"π", "ε", "ρ", "ι", "τ", "ε", "μ", "ε", "ι", "ν">>

PeriTemein == <<"π", "ε", "ρ", "ι", " ", "τ", "ε", "μ", "ε", "ι", "ν">>

CompoundOfPair(a, lo, hi, p) ==
    /\ DictHas(out, PairKey(a, p))
    /\ DictGet(out, PairKey(a, p)) = PairValue(a, p)

CompoundOfLastPair(a, lo, hi, p) ==
    /\ DictHas(out, PairKey(a, p))
    /\ DictGet(out, PairKey(a, p)) = PairValue(a, LastPair(a, lo, hi, p))

\* C4 as stated: every pair of words with adjacent IDs in the range of a verse
\* or area lookup has an entry under its concatenated normalized forms whose
\* value is the pair's originals joined by one space.
C4_AsStated ==
    ScopeCall =>
        \A p \in AdjacentPairs(arg, First(fn, arg), Last(fn, arg)) :
            CompoundOfPair(arg, First(fn, arg), Last(fn, arg), p)

\* C4: every pair of words with adjacent IDs in the range of a verse or area
\* lookup has an entry under its concatenated normalized forms; the value is
\* the originals, joined by one space, of the last pair of neighbouring words
\* of the range with that key: the pair's own when no later pair has the key
\* (περι at 5 and τεμειν at 6 give περιτεμειν -> "περι τεμειν").
C4_CompoundOfLastPair ==
    /\ ScopeCall =>
          \A p \in AdjacentPairs(arg, First(fn, arg), Last(fn, arg)) :
              CompoundOfLastPair(arg, First(fn, arg), Last(fn, arg), p)
    /\ CompoundCall => DictHas(out, Peritemein) /\ DictGet(out, Peritemein) = PeriTemein

\* a pair with adjacent IDs whose entry was rewritten by a later pair with
\* other originals, and the worked example
C4_Witness ==
    \/ /\ ScopeCall
       /\ \E p \in AdjacentPairs(arg, First(fn, arg), Last(fn, arg)) :
             /\ LaterPairs(arg, First(fn, arg), Last(fn, arg), p) # {}
             /\ DictGet(out, PairKey(arg, p)) # PairValue(arg, p)
    \/ CompoundCall /\ DictHas(out, Peritemein)

\* the union of the variation lists of the members of a variation list
SecondPass(variations, variation_type) ==
    UNION { generate_variation_list(v, variation_type) : v \in variations }

\* C5: the union of generate_variation_list over the members of a variation
\* list, with the same category selector, is that variation list: a second
\* pass adds no form.
C5_SecondPassAddsNothing ==
    fn = "generate_variation_list" => SecondPass(out, arg[2]) = out

\* C6: when is_likely_legitimate_variation reports a variation for (A, B) it
\* reports one for (B, A).
C6_Symmetric ==
    (fn = "is_likely_legitimate_variation" /\ out.is_variation)
        => is_likely_legitimate_variation(arg[2], arg[1]).is_variation

EndsInMovableNu(normalized) ==
    EndsWith(normalized, <<"ε", "ν">>) \/ EndsWith(normalized, <<"ι", "ν">>)

WithoutLast(normalized) == SubSeq(normalized, 1, Len(normalized) - 1)

\* C7: a word whose normalized form ends in εν or ιν is known when an index
\* has the form without the final ν.
C7_StrippedNuIsKnown ==
    Running =>
        \A word \in WordsRead :
            (EndsInMovableNu(Normalized(word)) /\ InIndex(WithoutLast(Normalized(word))))
                => is_word_in_sets(word)

ChapterToRahlfs(book, chapter) ==
    [raised |-> FALSE, book |-> book, chapter |-> chapter]

\* C8: convert_brenton_chapter_to_rahlfs takes ΝΕΕΜΙΑΣ chapter c to 2Esdr
\* chapter c + 10 (1 to 11), ΕΣΔΡΑΣ chapter c to 2Esdr chapter c and any other
\* book of the table to its Rahlfs code with the chapter as it is;
\* convert_brenton_reference_to_rahlfs gives the verse as it is.
C8_ChapterToRahlfs ==
    /\ fn = "convert_brenton_chapter_to_rahlfs" =>
          /\ arg[1] = "ΝΕΕΜΙΑΣ" => out = ChapterToRahlfs("2Esdr", arg[2] + 10)
          /\ arg = <<"ΝΕΕΜΙΑΣ", 1>> => out.chapter = 11
          /\ arg[1] = "ΕΣΔΡΑΣ" => out = ChapterToRahlfs("2Esdr", arg[2])
          /\ (arg[1] \in DOMAIN BRENTON_TO_RAHLFS /\ arg[1] # "ΝΕΕΜΙΑΣ")
                => out = ChapterToRahlfs(BRENTON_TO_RAHLFS[arg[1]], arg[2])
    /\ (fn = "convert_brenton_reference_to_rahlfs" /\ ~out.raised) =>
          /\ Len(out.ref) = 5
          /\ out.ref[5] = arg[3]
          /\ out.ref[3] = IF arg[1] = "ΝΕΕΜΙΑΣ" THEN arg[2] + 10 ELSE arg[2]

\* Nehemiah 1 converted to chapter 11, and a reference of Nehemiah converted
C8_Witness ==
    \/ /\ fn = "convert_brenton_chapter_to_rahlfs"
       /\ arg = <<"ΝΕΕΜΙΑΣ", 1>> /\ out.chapter = 11
    \/ /\ fn = "convert_brenton_reference_to_rahlfs"
       /\ arg[1] = "ΝΕΕΜΙΑΣ" /\ out.ref[5] = arg[3]

\* the row's book is unknown to a converter
UnknownBook(e) == RowRahlfsRef(e).raised \/ RowSweteRef(e).raised

\* the row's reference converts but is in neither versification
OutsideEditions(e) ==
    /\ ~UnknownBook(e)
    /\ ~DictHas(RAHLFS_VERSE_MAP, RowRahlfsRef(e).ref)
    /\ ~DictHas(SWETE_VERSE_MAP, RowSweteRef(e).ref)

Checked(e) ==
    /\ input.check_typos
    /\ HaveVerseData(RowBook(e), RowChapter(e), RowVerse(e))

CorpusTypo(e) == check_typos_in_scope(e.word, RAHLFS_WORDS, SWETE_WORDS)

\* the row is what the corpus-wide typo test alone gives
DecidedByCorpus(e) ==
    /\ ~e.verse_match /\ ~e.area_match /\ ~e.legitimate_variation
    /\ e.is_typo = CorpusTypo(e).found
    /\ IF CorpusTypo(e).found
       THEN /\ e.closest_match \in CorpusTypo(e).match
            /\ e.similarity = Format2(CorpusTypo(e).score)
       ELSE e.closest_match = <<>> /\ e.similarity = <<>>

RahlfsProbes == { <<b, ".", c, ".", v>> : b \in {"Gen", "2Esdr"}, c \in {1, 11}, v \in 1..4 }

SweteProbes == { <<b, ".", c, ":", v>> : b \in {"Gen", "Neh"}, c \in {1, 11}, v \in 1..4 }

Places ==
    {<<NoneBook, 0, 0>>}
    \cup { <<b, 1, v>> : b \in {"ΓΕΝΕΣΙΣ", "ΝΕΕΜΙΑΣ", "ΒΙΒΛΟΣ"}, v \in 1..4 }

NothingFound(ref, verse_map, sorted_verses, words_dict) ==
    /\ get_verse_words(ref, verse_map, sorted_verses, words_dict) = <<>>
    /\ get_area_words(ref, verse_map, sorted_verses, words_dict, VerseRange) = <<>>

\* an empty word list, an empty index or a reference the index does not have
\* gives empty maps
EmptyLookups ==
    /\ \A ref \in RahlfsProbes :
          (RAHLFS_WORDS_DICT = <<>> \/ RAHLFS_VERSE_MAP = <<>>
           \/ ~DictHas(RAHLFS_VERSE_MAP, ref))
             => NothingFound(ref, RAHLFS_VERSE_MAP, RAHLFS_SORTED_VERSES, RAHLFS_WORDS_DICT)
    /\ \A ref \in SweteProbes :
          (SWETE_WORDS_DICT = <<>> \/ SWETE_VERSE_MAP = <<>>
           \/ ~DictHas(SWETE_VERSE_MAP, ref))
             => NothingFound(ref, SWETE_VERSE_MAP, SWETE_SORTED_VERSES, SWETE_WORDS_DICT)

NoMatchResult == Results(FALSE, {NoneStr}, Zero, FALSE, FALSE, FALSE)

\* no word of the text is known and none has a match, wherever it stands
NothingKnown ==
    \A word \in WordsRead :
        /\ ~is_word_in_sets(word)
        /\ \A p \in Places : is_likely_typo(word, p[1], p[2], p[3]) = NoMatchResult

\* C10 as stated: with an empty word list or an empty versification index the
\* verse and area lookups give empty maps, is_word_in_sets gives False and
\* is_likely_typo gives no match.
C10_AsStated ==
    Running =>
        /\ EmptyLookups
        /\ (RAHLFS_WORDS_DICT = <<>> \/ SWETE_WORDS_DICT = <<>>
            \/ RAHLFS_VERSE_MAP = <<>> \/ SWETE_VERSE_MAP = <<>>) => NothingKnown

\* C10: get_verse_words and get_area_words give an empty map on an empty word
\* list, on an empty versification index and for a reference the index does
\* not have; with both word lists empty is_word_in_sets gives False and
\* is_likely_typo gives no match; none of them raises.
C10_EmptyIndices ==
    /\ pc # "crashed"
    /\ Running =>
          /\ EmptyLookups
          /\ (RAHLFS_WORDS_DICT = <<>> /\ SWETE_WORDS_DICT = <<>>) => NothingKnown

\* the text read to its end with both word lists empty and the versification
\* loaded: a row for a word, none with a match
C10_Witness ==
    /\ pc = "done"
    /\ RAHLFS_WORDS_DICT = <<>> /\ SWETE_WORDS_DICT = <<>>
    /\ RAHLFS_VERSE_MAP # <<>> /\ SWETE_VERSE_MAP # <<>>
    /\ missing_words # <<>>
    /\ \A i \in DOMAIN missing_words :
          ~missing_words[i].is_typo /\ missing_words[i].closest_match = <<>>

(***************************************************************************)
(* The rows reported as typos.  The score of a candidate is the ratio      *)
(* 2*M/T of the compared strings: the word's normalized form, or that form *)
(* with the movable nu appended, against the candidate, both normalized    *)
(* for comparison.                                                         *)
(***************************************************************************)
\* what is_likely_typo can return for the word of a row
Outcomes(e) ==
    IF input.check_typos
    THEN is_likely_typo(e.word, RowBook(e), RowChapter(e), RowVerse(e))
    ELSE NoMatchResult

ScoreAgainst(normalized, matched) ==
    SequenceMatcherRatio(normalize_for_comparison(normalized),
                         normalize_for_comparison(strip_diacritics(matched)))

SameRatio(x, y) == RatioGE(x, y) /\ RatioGE(y, x)

\* the similarity is the score of the matched form against the word
ScoreOfMatch(word, r) ==
    \/ SameRatio(r.similarity, ScoreAgainst(Normalized(word), r.closest_match))
    \/ SameRatio(r.similarity,
                 ScoreAgainst(Append(Normalized(word), "ν"), r.closest_match))

TypoWithScore(word, r) ==
    /\ Truthy(r.closest_match)
    /\ RatioGE(r.similarity, Threshold)
    /\ ScoreOfMatch(word, r)

\* C11: every result with is_typo = True has a matched form that is not
\* empty and a similarity of at least 0.80, the ratio 2*M/T of the word
\* against the matched candidate; this holds for the typos of the verse, of
\* the area and of the corpus, and a row written for one shows the form and a
\* similarity.
C11_TyposReachThreshold ==
    Running =>
        \A i \in DOMAIN missing_words :
            /\ missing_words[i].is_typo =>
                  /\ missing_words[i].closest_match # <<>>
                  /\ missing_words[i].similarity # <<>>
            /\ \A r \in Outcomes(missing_words[i]) :
                  r.is_typo => TypoWithScore(missing_words[i].word, r)

\* typos reported from the verse, from the area and from the corpus
C11_Witness ==
    \E i, j, k \in DOMAIN missing_words :
        /\ missing_words[i].is_typo /\ missing_words[i].verse_match
        /\ missing_words[j].is_typo /\ missing_words[j].area_match
        /\ missing_words[k].is_typo
        /\ ~missing_words[k].verse_match /\ ~missing_words[k].area_match

(***************************************************************************)
(* The future stem of λαμβάνω: ληψ in one edition, λημψ in the other.      *)
(***************************************************************************)
Leps == <<"λ", "η", "ψ">>

Lemps == <<"λ", "η", "μ", "ψ">>

\* the forms that differ from a normalized form by the future stem only
StemSwaps(normalized) ==
    { Replace(normalized, Lemps, Leps), Replace(normalized, Leps, Lemps) } \ {normalized}

VerseKeys(e) == DictKeys(RahlfsVerse(e)) \cup DictKeys(SweteVerse(e))

\* the words of the verse of a row that differ from the row's word by the stem
StemHits(e) == VerseKeys(e) \cap StemSwaps(Normalized(e.word))

\* the categories whose rules alone give a form from a word
CategoriesOf(word, form) ==
    { s \in Selectors \ {"all"} : form \in generate_variation_list(word, s) }

NoLocalMatch(e) ==
    \/ ~Scoped(e)
    \/ /\ ~VariationInVerse(e) /\ ~TypoInVerse(e)
       /\ ~VariationInArea(e) /\ ~TypoInArea(e)

KeyScore(form, key) ==
    SequenceMatcherRatio(normalize_for_comparison(form), normalize_for_comparison(key))

CorpusKeys == DictKeys(RAHLFS_WORDS) \cup DictKeys(SWETE_WORDS)

OriginalsOf(key) ==
    { DictGet(words, key) : words \in { w \in {RAHLFS_WORDS, SWETE_WORDS} : DictHas(w, key) } }

\* some entry of the corpus, of any length, scores at least 0.80
SomeEntryReaches(normalized) ==
    \E key \in CorpusKeys : RatioGE(KeyScore(normalized, key), Threshold)

\* no entry of the corpus scores more than s
BestOverall(normalized, s) ==
    \A key \in CorpusKeys : RatioGE(s, KeyScore(normalized, key))

InWindow(form, key) ==
    Abs(Len(normalize_for_comparison(key)) - Len(normalize_for_comparison(form))) <= 2

Compared(words, form) == { key \in DictKeys(words) : InWindow(form, key) }

Reached(words, form) ==
    \E key \in Compared(words, form) : RatioGE(KeyScore(form, key), Threshold)

\* the form compared with an edition: the normalized word, or the word with
\* the movable nu when it ends in ε or ι and no entry reaches 0.80 without
ComparedForm(words, normalized) ==
    IF /\ ~Reached(words, normalized)
       /\ EndsWith(normalized, <<"ε">>) \/ EndsWith(normalized, <<"ι">>)
    THEN Append(normalized, "ν") ELSE normalized

ReachedIn(words, normalized) == Reached(words, ComparedForm(words, normalized))

NoBetterIn(words, form, s) ==
    \A key \in Compared(words, form) :
        RatioGE(KeyScore(form, key), Threshold) => RatioGE(s, KeyScore(form, key))

\* the row shows an entry of the edition that scores best among those compared
BestOf(words, other, normalized, e) ==
    \E key \in Compared(words, ComparedForm(words, normalized)) :
        /\ DictGet(words, key) = e.closest_match
        /\ RatioGE(KeyScore(ComparedForm(words, normalized), key), Threshold)
        /\ e.similarity = Format2(KeyScore(ComparedForm(words, normalized), key))
        /\ NoBetterIn(words, ComparedForm(words, normalized),
                      KeyScore(ComparedForm(words, normalized), key))
        /\ NoBetterIn(other, ComparedForm(other, normalized),
                      KeyScore(ComparedForm(words, normalized), key))

CorpusScope(e) == ~e.verse_match /\ ~e.area_match /\ ~e.legitimate_variation

\* C13 as stated: a word that is not known and has no match in its verse or
\* area, or no verse context, and for which some entry of the corpus scores
\* at least 0.80, is reported as a typo of the corpus, with the original form
\* of the best-scoring entry.
C13_AsStated ==
    Running =>
        \A i \in LastRows :
            (/\ input.check_typos
             /\ NoLocalMatch(missing_words[i])
             /\ SomeEntryReaches(Normalized(missing_words[i].word))) =>
                /\ missing_words[i].is_typo
                /\ CorpusScope(missing_words[i])
                /\ \E key \in CorpusKeys :
                      /\ missing_words[i].closest_match \in OriginalsOf(key)
                      /\ BestOverall(Normalized(missing_words[i].word),
                                     KeyScore(Normalized(missing_words[i].word), key))

\* C13: a word that is not known and has no match in its verse or area, or
\* no verse context, is reported as a typo of the corpus exactly when an
\* entry of an edition whose length is within 2 of the word's scores at least
\* 0.80 against the word (against the word with ν appended, when it ends in ε
\* or ι and no such entry of that edition reaches 0.80); the row then has
\* neither verse nor area match and shows the original form and the score of
\* the best-scoring of these entries.  An entry whose length differs by more
\* than 2 is not compared, whatever it scores.
C13_CorpusTypoWithinWindow ==
    Running =>
        \A i \in LastRows :
            (input.check_typos /\ NoLocalMatch(missing_words[i])) =>
                IF \/ ReachedIn(RAHLFS_WORDS, Normalized(missing_words[i].word))
                   \/ ReachedIn(SWETE_WORDS, Normalized(missing_words[i].word))
                THEN /\ missing_words[i].is_typo
                     /\ CorpusScope(missing_words[i])
                     /\ \/ BestOf(RAHLFS_WORDS, SWETE_WORDS,
                                  Normalized(missing_words[i].word), missing_words[i])
                        \/ BestOf(SWETE_WORDS, RAHLFS_WORDS,
                                  Normalized(missing_words[i].word), missing_words[i])
                ELSE /\ ~missing_words[i].is_typo
                     /\ missing_words[i].closest_match = <<>>

\* ανθρωπς, in a verse that has no match for it, reported as a typo of
\* ἄνθρωπος of the corpus, and a word without a match although a longer entry
\* of the corpus scores 0.80 or more, and a word that reaches 0.80 only with
\* the nu appended
C13_Witness ==
    /\ input.check_typos
    /\ \E i \in LastRows :
          /\ Scoped(missing_words[i]) /\ NoLocalMatch(missing_words[i])
          /\ missing_words[i].word = <<"α", "ν", "θ", "ρ", "ω", "π", "ς">>
          /\ missing_words[i].is_typo /\ CorpusScope(missing_words[i])
          /\ missing_words[i].closest_match = DictGet(RAHLFS_WORDS, <<"α", "ν", "θ", "ρ", "ω", "π", "ο", "ς">>)
    /\ \E j \in DOMAIN missing_words :
          /\ ~HasContext(missing_words[j])
          /\ SomeEntryReaches(Normalized(missing_words[j].word))
          /\ ~missing_words[j].is_typo
    /\ \E k \in DOMAIN missing_words :
          /\ ~HasContext(missing_words[k])
          /\ ~Reached(RAHLFS_WORDS, Normalized(missing_words[k].word))
          /\ ~Reached(SWETE_WORDS, Normalized(missing_words[k].word))
          /\ missing_words[k].is_typo

(***************************************************************************)
(* Loading.  A row is well formed when it has two columns or more and an   *)
(* integer word ID: in the first column of a word list, in the first or    *)
(* the second column of a versification file.                              *)
(***************************************************************************)
WellFormedWordRow(row) == Len(row) >= 2 /\ row[1].int

WellFormedVerseRow(row) == Len(row) >= 2 /\ (row[1].int \/ row[2].int)

RefOfRow(row) == IF row[1].int THEN row[2].val ELSE row[1].val

\* C14: a malformed row of a word list or of a versification file is skipped
\* and loading goes on: every well-formed row of the file, before or after a
\* malformed one, is in the index that is returned.
C14_WellFormedRowsAreLoaded ==
    /\ fn = "load_words_with_ids" =>
          \A i \in DOMAIN arg.rows :
              WellFormedWordRow(arg.rows[i]) => DictHas(out, arg.rows[i][1].val)
    /\ fn = "load_versification" =>
          \A i \in DOMAIN arg.rows :
              WellFormedVerseRow(arg.rows[i]) =>
                  DictHas(out.verse_map, RefOfRow(arg.rows[i]))

(***************************************************************************)
(* The rows due after n lines, stated on the text: the place of a line is  *)
(* the book of the last \biblebook line, the chapter of the last \ch since *)
(* then and the verse of the last \vs, or 1 after a \ch without \vs.       *)
(***************************************************************************)
BookLine(n) == input.bible[n].book \notin {NoneBook, ""}

RECURSIVE BookAt(_)
BookAt(n) ==
    IF n = 0 THEN NoneBook
    ELSE IF BookLine(n) THEN input.bible[n].book
    ELSE BookAt(n - 1)

RECURSIVE ChapterAt(_)
ChapterAt(n) ==
    IF n = 0 \/ BookLine(n) THEN 0
    ELSE IF input.bible[n].chapter # 0 THEN input.bible[n].chapter
    ELSE ChapterAt(n - 1)

RECURSIVE VerseAt(_)
VerseAt(n) ==
    IF n = 0 \/ BookLine(n) THEN 0
    ELSE IF input.bible[n].verse # 0 THEN input.bible[n].verse
    ELSE IF input.bible[n].chapter # 0 THEN 1
    ELSE VerseAt(n - 1)

PlaceKnown(n) == BookAt(n) # NoneBook /\ ChapterAt(n) # 0 /\ VerseAt(n) # 0

RefAt(n) ==
    IF PlaceKnown(n) THEN VerseRef(BookAt(n), ChapterAt(n), VerseAt(n)) ELSE <<"Unknown">>

AcceptedWord(word) == Normalized(word) \in ACCEPTED_WORDS

ExaminedAt(n, word) ==
    PlaceKnown(n) /\ <<RefAt(n), Normalized(word)>> \in DictKeys(ALREADY_EXAMINED)

KnownWord(word) == InIndex(Normalized(word)) \/ InIndex(Append(Normalized(word), "ν"))

Due(n, word) == ~AcceptedWord(word) /\ ~ExaminedAt(n, word) /\ ~KnownWord(word)

DueOfLine(n) ==
    IF BookLine(n) THEN <<>>
    ELSE [k \in DOMAIN SelectSeq(input.bible[n].greek_words, LAMBDA w : Due(n, w)) |->
             <<n, RefAt(n), SelectSeq(input.bible[n].greek_words, LAMBDA w : Due(n, w))[k]>>]

RECURSIVE DueUpTo(_)
DueUpTo(n) == IF n = 0 THEN <<>> ELSE DueUpTo(n - 1) \o DueOfLine(n)

RowsWritten ==
    [i \in DOMAIN missing_words |->
        <<missing_words[i].line_num, missing_words[i].verse_ref, missing_words[i].word>>]

\* C15: the rows of process_bible_file are, in the order of the text, one row
\* for each occurrence of a word that is not accepted, not recorded as
\* examined for its verse and not known to either index; an accepted word and
\* a word examined at its verse get no row, and is_likely_typo is called for
\* the words that get a row only (words_checked counts its calls).
C15_OneRowPerDueWord ==
    Running =>
        /\ RowsWritten = DueUpTo(line_num)
        /\ words_checked = IF input.check_typos THEN Len(DueUpTo(line_num)) ELSE 0

\* the text read to its end: an accepted word and a word examined at its verse
\* without a row, and the examined word with a row in another verse
C15_Witness ==
    /\ pc = "done" /\ input.check_typos
    /\ \E n \in LinesRead : \E k \in DOMAIN input.bible[n].greek_words :
          /\ AcceptedWord(input.bible[n].greek_words[k])
          /\ ~KnownWord(input.bible[n].greek_words[k])
          /\ \A i \in DOMAIN missing_words :
                missing_words[i].word # input.bible[n].greek_words[k]
    /\ \E n \in LinesRead : \E k \in DOMAIN input.bible[n].greek_words :
          /\ ExaminedAt(n, input.bible[n].greek_words[k])
          /\ ~KnownWord(input.bible[n].greek_words[k])
          /\ \A i \in DOMAIN missing_words :
                missing_words[i].word = input.bible[n].greek_words[k]
                   => missing_words[i].line_num # n
          /\ \E i \in DOMAIN missing_words :
                missing_words[i].word = input.bible[n].greek_words[k]

(***************************************************************************)
(* The indices as main builds them from the files of the run.              *)
(***************************************************************************)
VersificationBuilt(file) ==
    IF input.check_typos
    THEN load_versification(file)
    ELSE [verse_map |-> <<>>, sorted_verses |-> <<>>]

AsBuilt ==
    /\ RAHLFS_WORDS_DICT = load_words_with_ids(input.rahlfs)
    /\ SWETE_WORDS_DICT = load_words_with_ids(input.swete)
    /\ RAHLFS_WORDS = derive_word_set(load_words_with_ids(input.rahlfs))
    /\ SWETE_WORDS = derive_word_set(load_words_with_ids(input.swete))
    /\ RAHLFS_VERSE_MAP = VersificationBuilt(input.rahlfs_versification).verse_map
    /\ RAHLFS_SORTED_VERSES = VersificationBuilt(input.rahlfs_versification).sorted_verses
    /\ SWETE_VERSE_MAP = VersificationBuilt(input.swete_versification).verse_map
    /\ SWETE_SORTED_VERSES = VersificationBuilt(input.swete_versification).sorted_verses
    /\ ACCEPTED_WORDS = load_accepted_words(input.accepted_words)
    /\ ALREADY_EXAMINED = load_already_examined(input.already_examined)

\* C16: after startup the indices (word-ID maps, dedup maps, versification
\* maps and sorted lists, accepted words, examined words) are read only: at
\* every state of the loop over the words, after any number of calls of
\* is_word_in_sets, is_likely_typo, get_verse_words, get_area_words and
\* find_closest_word, each index is what startup built from its file.
C16_IndicesStayAsBuilt == Running => AsBuilt

\* every file loaded, the text read to its end, and words that went through
\* the known-word test, the verse, the area and the corpus
C16_Witness ==
    /\ pc = "done" /\ input.check_typos
    /\ AsBuilt
    /\ RAHLFS_WORDS # <<>> /\ SWETE_WORDS # <<>>
    /\ RAHLFS_SORTED_VERSES # <<>> /\ SWETE_SORTED_VERSES # <<>>
    /\ ACCEPTED_WORDS # {} /\ ALREADY_EXAMINED # <<>>
    /\ \E word \in WordsRead : is_word_in_sets(word)
    /\ \E i, j, k \in DOMAIN missing_words :
          /\ missing_words[i].verse_match
          /\ missing_words[j].area_match
          /\ missing_words[k].is_typo /\ CorpusScope(missing_words[k])

(***************************************************************************)
(* The loops of generate_variation_list.  A rule of a table is a pair      *)
(* (old, new) of a replacement the table allows, in either direction.      *)
(***************************************************************************)
InCall == fn = "generate_variation_list"

RulesOfGroups(table) ==
    UNION { { <<table[k][a], table[k][b]>> :
                a \in DOMAIN table[k], b \in DOMAIN table[k] } : k \in DOMAIN table }

RulesOfFlatList(table) ==
    UNION { { <<table[2 * j - 1], table[2 * j]>>, <<table[2 * j], table[2 * j - 1]>> } :
            j \in 1..(Len(table) \div 2) }

RulesOf(pass) ==
    { r \in (IF PassTable[pass] = LAMBDA_COMPOUNDS
             THEN RulesOfFlatList(PassTable[pass])
             ELSE RulesOfGroups(PassTable[pass])) : r[1] # r[2] }

\* the forms one replacement by one rule of the table gives from the forms
SingleReplacements(forms, pass) ==
    { Replace(x[1], x[2][1], x[2][2]) :
        x \in { y \in forms \X RulesOf(pass) : Contains(y[1], y[2][1]) } }

AfterLoop == InCall /\ out.pass \in DOMAIN PassTable /\ out.at = "assign"

Finished == InCall /\ out.pass = ReturnNext

\* a loop adds the single replacements of the forms it started with, no more
OnePass ==
    AfterLoop =>
        out.new_variations =
            out.current_variations \cup SingleReplacements(out.current_variations, out.pass)

\* C17: every call of generate_variation_list returns, for every word and
\* selector: the body is one loop for each pattern table of the selected
\* categories; a loop adds to the forms it started with their single
\* replacements by the rules of its table, so a form it produces is not
\* expanded by the same loop, and the loops that follow start with the forms
\* accumulated so far; the list returned is that of the function.
C17_PassesTerminate ==
    /\ InCall ~> ~InCall
    /\ []OnePass
    /\ [](Finished => out.final_variations = generate_variation_list(arg[1], arg[2]))

\* a loop has ended with a new form that its own table could expand further
\* and was not, made from a form that an earlier loop had produced
C17_Witness ==
    /\ AfterLoop
    /\ \E form \in out.new_variations \ out.current_variations :
          ~(SingleReplacements({form}, out.pass) \subseteq out.new_variations)
    /\ \E form \in out.new_variations \ out.current_variations :
          form \notin SingleReplacements({strip_accents(lower(arg[1]))}, out.pass)

(***************************************************************************)
(* The lengths of the forms a typo result shows.                           *)
(***************************************************************************)
CompLen(form) == Len(normalize_for_comparison(form))

\* by how much the matched form is longer than the word
Longer(word, r) == CompLen(Normalized(r.closest_match)) - CompLen(Normalized(word))

EndsInMovable(normalized) == EndsWith(normalized, <<"ε">>) \/ EndsWith(normalized, <<"ι">>)

\* the matched form was compared with this form: its length is within 2 of
\* the form's and the similarity is its score against the form
MatchedAs(form, r) ==
    /\ Abs(CompLen(Normalized(r.closest_match)) - CompLen(form)) <= 2
    /\ SameRatio(r.similarity, ScoreAgainst(form, r.closest_match))

TypoWithinWindow(word, r) ==
    \/ MatchedAs(Normalized(word), r)
    \/ /\ EndsInMovable(Normalized(word))
       /\ MatchedAs(Append(Normalized(word), "ν"), r)

\* C18 as stated: the form that a typo result shows differs in length by at
\* most 2 from the word, also when it was found with the nu appended.
C18_AsStated ==
    Running =>
        \A i \in DOMAIN missing_words :
            \A r \in Outcomes(missing_words[i]) :
                r.is_typo => Abs(Longer(missing_words[i].word, r)) <= 2

\* C18: the form that a typo result shows differs in length by at most 2
\* from the form it was compared with: the word, or, for a word in ε or ι
\* that was matched with the nu appended, the word with the nu; against the
\* word itself it is at most 2 shorter and at most 3 longer.
C18_WithinTwoOfComparedForm ==
    Running =>
        \A i \in DOMAIN missing_words :
            \A r \in Outcomes(missing_words[i]) :
                r.is_typo =>
                    /\ TypoWithinWindow(missing_words[i].word, r)
                    /\ Longer(missing_words[i].word, r) \in (0 - 2)..3
                    /\ Longer(missing_words[i].word, r) = 3 =>
                          EndsInMovable(Normalized(missing_words[i].word))

\* typos have been reported of a form of another length than the word's, of a
\* form found with the nu appended that is within 2 of the word, and of a
\* form found with the nu appended that is 3 longer than the word
C18_Witness ==
    /\ pc = "done" /\ input.check_typos
    /\ \E i \in DOMAIN missing_words : \E r \in Outcomes(missing_words[i]) :
          /\ r.is_typo /\ Longer(missing_words[i].word, r) = 1
          /\ MatchedAs(Normalized(missing_words[i].word), r)
    /\ \E i \in DOMAIN missing_words : \E r \in Outcomes(missing_words[i]) :
          /\ r.is_typo /\ Abs(Longer(missing_words[i].word, r)) <= 2
          /\ ~MatchedAs(Normalized(missing_words[i].word), r)
    /\ \E i \in DOMAIN missing_words : \E r \in Outcomes(missing_words[i]) :
          /\ r.is_typo /\ Longer(missing_words[i].word, r) = 3

(***************************************************************************)
(* The forms of a variation list.                                          *)
(***************************************************************************)
\* C19: every form that generate_variation_list returns is lowercase and has
\* no diacritics, for every word and every selector.
C19_FormsAreNormalized ==
    fn = "generate_variation_list" =>
        \A form \in out : strip_diacritics(lower(form)) = form

(***************************************************************************)
(* Variations and the scopes.                                              *)
(***************************************************************************)
\* an entry of the corpus is a variation of the word
VariationInCorpus(e) ==
    check_legitimate_variations_in_scope(e.word, RAHLFS_WORDS, SWETE_WORDS).found

OneScope(r) == r.verse_match # r.area_match

\* C20: no variation test is made on the corpus: every result with
\* legitimate_variation has exactly one of verse_match and area_match, what
\* it shows is a variation found in that verse or area, and a word without a
\* match in its verse and area, or without verse context, has a result and a
\* row with legitimate_variation False and neither scope, also when an entry
\* of the corpus is a variation of it.
C20_NoVariationAtCorpusScope ==
    Running =>
        \A i \in DOMAIN missing_words :
            /\ missing_words[i].legitimate_variation =>
                  /\ OneScope(missing_words[i])
                  /\ Scoped(missing_words[i])
                  /\ missing_words[i].verse_match => VariationInVerse(missing_words[i])
                  /\ missing_words[i].area_match => VariationInArea(missing_words[i])
            /\ \A r \in Outcomes(missing_words[i]) :
                  /\ r.legitimate_variation => OneScope(r)
                  /\ NoLocalMatch(missing_words[i]) =>
                        ~r.legitimate_variation /\ ~r.verse_match /\ ~r.area_match
            /\ (input.check_typos /\ NoLocalMatch(missing_words[i])) =>
                  CorpusScope(missing_words[i])

\* the run has reported a variation of the verse, a variation of the area,
\* and a word that has a variation in the corpus only and is not reported as
\* a variation
C20_Witness ==
    /\ pc = "done"
    /\ \E i \in DOMAIN missing_words :
          missing_words[i].legitimate_variation /\ missing_words[i].verse_match
    /\ \E i \in DOMAIN missing_words :
          missing_words[i].legitimate_variation /\ missing_words[i].area_match
    /\ \E i \in DOMAIN missing_words :
          /\ input.check_typos
          /\ NoLocalMatch(missing_words[i])
          /\ VariationInCorpus(missing_words[i])
          /\ CorpusScope(missing_words[i])

(***************************************************************************)
(* find_closest_word and its second search.                                *)
(***************************************************************************)
\* s is the best score of the entries compared with the form, 0 without any
BestScoreIs(words, form, s) ==
    IF Compared(words, form) = {} THEN SameRatio(s, Zero)
    ELSE \E key \in Compared(words, form) :
            /\ SameRatio(s, KeyScore(form, key))
            /\ \A other \in Compared(words, form) :
                  RatioGE(KeyScore(form, key), KeyScore(form, other))

\* what is returned is an entry compared with the form, with its best score
ReturnedFrom(words, form, r) ==
    /\ BestScoreIs(words, form, r.ratio)
    /\ RatioGE(r.ratio, Threshold)
    /\ \E key \in Compared(words, form) :
          r.match = DictGet(words, key) /\ SameRatio(r.ratio, KeyScore(form, key))

\* no score of the first search is above the score returned
NotBelowFirst(words, normalized, r) ==
    \A key \in Compared(words, normalized) : RatioGE(r.ratio, KeyScore(normalized, key))

ClosestCalled == fn = "find_closest_word"

TokenOfCall == strip_diacritics(lower(arg.word))

SecondSearchDue ==
    /\ ClosestCalled
    /\ EndsInMovable(TokenOfCall)
    /\ ~Reached(arg.word_dict, TokenOfCall)

\* C21: for a word in ε or ι of which no compared entry reaches 0.80,
\* find_closest_word searches again with ν appended and reports a match
\* exactly when the higher of the two best scores is at least 0.80, with that
\* score and an entry that has it; without a match it returns (None, 0).  For
\* a word that does not end in ε or ι, or of which an entry reaches 0.80, the
\* result is that of the first search alone.
C21_SecondSearchWithNu ==
    ClosestCalled =>
        IF SecondSearchDue
        THEN IF Reached(arg.word_dict, Append(TokenOfCall, "ν"))
             THEN /\ ReturnedFrom(arg.word_dict, Append(TokenOfCall, "ν"), out)
                  /\ NotBelowFirst(arg.word_dict, TokenOfCall, out)
             ELSE out = NoMatch
        ELSE IF Reached(arg.word_dict, TokenOfCall)
             THEN ReturnedFrom(arg.word_dict, TokenOfCall, out)
             ELSE out = NoMatch

\* a word in ι whose first search found an entry below 0.80 and whose second
\* search, with the nu, found a match
C21_Witness ==
    /\ SecondSearchDue
    /\ \E key \in Compared(arg.word_dict, TokenOfCall) :
          RatioGT(KeyScore(TokenOfCall, key), Zero)
    /\ Truthy(out.match)
    /\ RatioGE(out.ratio, Threshold)

(***************************************************************************)
(* The candidate kept by find_best_match and the edition reported.         *)
(***************************************************************************)
\* the positions of the entries compared with the form that score above 0
ScoringAt(words, form) ==
    { i \in DOMAIN words : /\ InWindow(form, words[i][1])
                           /\ RatioGT(KeyScore(form, words[i][1]), Zero) }

\* position i has the highest score and is the first that has it
FirstOfBest(words, form, i) ==
    /\ i \in ScoringAt(words, form)
    /\ \A j \in ScoringAt(words, form) :
          /\ RatioGE(KeyScore(form, words[i][1]), KeyScore(form, words[j][1]))
          /\ j < i => RatioGT(KeyScore(form, words[i][1]), KeyScore(form, words[j][1]))

KeptByBestMatch ==
    fn = "find_best_match" =>
        IF ScoringAt(arg.word_dict, arg.normalized) = {}
        THEN out.match = NoneStr /\ out.ratio = Zero
        ELSE \E i \in ScoringAt(arg.word_dict, arg.normalized) :
                /\ FirstOfBest(arg.word_dict, arg.normalized, i)
                /\ out.match = arg.word_dict[i][1]
                /\ out.ratio = KeyScore(arg.normalized, arg.word_dict[i][1])

\* the typo match of one edition
EditionTypo(word, words) == find_typo(word, words)

ReportedOfBoth(r, s, o) ==
    IF r.found /\ s.found
    THEN /\ o.found
         /\ RatioGE(r.score, s.score) => o.match = r.match /\ o.score = r.score
         /\ RatioGT(s.score, r.score) => o.match = s.match /\ o.score = s.score
    ELSE IF r.found THEN o.found /\ o.match = r.match /\ o.score = r.score
    ELSE IF s.found THEN o.found /\ o.match = s.match /\ o.score = s.score
    ELSE o = NotFound

\* C23: find_best_match returns the compared entry of the highest score, the
\* first in the order of the map among those of that score; and when both
\* editions have a typo match, check_typos_in_scope reports the higher score
\* with the form of the edition that has it, the form of Rahlfs when the
\* scores are equal.
C23_FirstOfHighestScore ==
    /\ KeptByBestMatch
    /\ fn = "check_typos_in_scope" =>
          ReportedOfBoth(EditionTypo(arg.word, arg.rahlfs_words),
                         EditionTypo(arg.word, arg.swete_words), out)

\* both editions have a typo match of the same score and different forms, the
\* Rahlfs map holds two entries of that score, and the first of them is
\* reported
C23_Witness ==
    /\ fn = "check_typos_in_scope"
    /\ EditionTypo(arg.word, arg.rahlfs_words).found
    /\ EditionTypo(arg.word, arg.swete_words).found
    /\ SameRatio(EditionTypo(arg.word, arg.rahlfs_words).score,
                 EditionTypo(arg.word, arg.swete_words).score)
    /\ EditionTypo(arg.word, arg.rahlfs_words).match
          # EditionTypo(arg.word, arg.swete_words).match
    /\ \E i, j \in ScoringAt(arg.rahlfs_words, strip_diacritics(lower(arg.word))) :
          /\ i < j
          /\ FirstOfBest(arg.rahlfs_words, strip_diacritics(lower(arg.word)), i)
          /\ SameRatio(KeyScore(strip_diacritics(lower(arg.word)), arg.rahlfs_words[i][1]),
                       KeyScore(strip_diacritics(lower(arg.word)), arg.rahlfs_words[j][1]))
          /\ out.match = {arg.rahlfs_words[i][2]}

(***************************************************************************)
(* The range of an area.                                                   *)
(***************************************************************************)
AreaCall == fn = "get_area_words" /\ DictHas(arg.verse_map, arg.verse_ref)

ExampleAreaCall(verse, n) ==
    /\ fn = "get_area_words"
    /\ arg.verse_ref = Ref(verse) /\ arg.verse_range = n
    /\ arg.verse_map = ExampleIndex.verse_map
    /\ arg.words_dict = ExampleIndex.words_dict

\* the value of a word's key is the original of the last word of the range
\* with that normalized form
WordsOfRange(a, lo, hi) ==
    \A id \in Present(a, lo, hi) :
        /\ DictHas(out, NormalizedAt(a, id))
        /\ \/ DictGet(out, NormalizedAt(a, id)) = OriginalAt(a, id)
           \/ \E later \in Present(a, lo, hi) :
                 later > id /\ NormalizedAt(a, later) = NormalizedAt(a, id)
           \/ \E p \in Neighbours(a, lo, hi) : PairKey(a, p) = NormalizedAt(a, id)

\* C22: for a reference at position k of the verses sorted by word ID,
\* get_area_words(ref, n) returns the words with IDs from the start of the
\* verse at position max(first, k - n) to the ID before the start of the verse
\* after position min(last, k + n), and to the highest word ID when that
\* position is the last; with verses starting at 10, 20 and 35 and a highest
\* ID of 50, the area of half-width 1 covers 10..34 for the first verse,
\* 10..50 for the second and 20..50 for the third.
C22_AreaRange ==
    /\ AreaCall =>
          /\ DictKeys(out) = KeysOfRange(arg, AreaFirst(arg), AreaLast(arg))
          /\ WordsOfRange(arg, AreaFirst(arg), AreaLast(arg))
    /\ ExampleAreaCall(1, 0) => ExampleCovers(10, 19)
    /\ ExampleAreaCall(1, 1) => ExampleCovers(10, 34)
    /\ ExampleAreaCall(2, 1) => ExampleCovers(10, 50)
    /\ ExampleAreaCall(3, 1) => ExampleCovers(20, 50)

\* an area that is cut at the first verse and ends before the last verse, with
\* words of the verse after it left out
C22_Witness ==
    /\ AreaCall
    /\ arg.verse_range > 0
    /\ Position(arg) - arg.verse_range < 1
    /\ Position(arg) + arg.verse_range < Len(arg.sorted_verses)
    /\ out # <<>>
    /\ \E id \in DictKeys(arg.words_dict) :
          id > AreaLast(arg) /\ NormalizedAt(arg, id) \notin DictKeys(out)

(***************************************************************************)
(* The movable nu of the variation list.                                   *)
(***************************************************************************)
GainsNu(v) == EndsWith(v, <<"ε">>) \/ EndsWith(v, <<"ι">>)

LosesNu(v) == EndsWith(v, <<"ε", "ν">>) \/ EndsWith(v, <<"ι", "ν">>)

\* C24: the list that generate_variation_list returns holds, for every form v
\* accumulated by the loops, v itself, v with ν appended when v ends in ε or
\* ι, and v without its last letter when v ends in εν or ιν; it holds nothing
\* else.
C24_MovableNuOfEveryForm ==
    Finished =>
        /\ \A v \in out.current_variations :
              /\ v \in out.final_variations
              /\ GainsNu(v) => Append(v, "ν") \in out.final_variations
              /\ LosesNu(v) => WithoutLast(v) \in out.final_variations
        /\ \A f \in out.final_variations :
              \/ f \in out.current_variations
              \/ \E v \in out.current_variations :
                    \/ GainsNu(v) /\ f = Append(v, "ν")
                    \/ LosesNu(v) /\ f = WithoutLast(v)
        /\ out.final_variations = generate_variation_list(arg[1], arg[2])

\* the last step gave a form its nu, which no loop had made, and left another
\* form as it was
C24_Witness ==
    /\ Finished
    /\ \E v \in out.current_variations :
          /\ GainsNu(v)
          /\ Append(v, "ν") \notin out.current_variations
          /\ Append(v, "ν") \in out.final_variations
    /\ \E v \in out.current_variations : ~GainsNu(v) /\ ~LosesNu(v)

(***************************************************************************)
(* The flags of a result.                                                  *)
(***************************************************************************)
ConsistentResult(r) ==
    /\ ~(r.is_typo /\ r.legitimate_variation)
    /\ ~(r.verse_match /\ r.area_match)
    /\ (~r.is_typo /\ ~r.legitimate_variation) =>
          /\ r.closest_match = NoneStr
          /\ r.similarity = Zero
          /\ ~r.verse_match /\ ~r.area_match

ConsistentRow(e) ==
    /\ ~(e.is_typo /\ e.legitimate_variation)
    /\ ~(e.verse_match /\ e.area_match)
    /\ (~e.is_typo /\ ~e.legitimate_variation) =>
          /\ e.closest_match = <<>>
          /\ e.similarity = <<>>
          /\ ~e.verse_match /\ ~e.area_match

\* the words of the line read last
WordsOfLastLine ==
    IF line_num \in DOMAIN input.bible
    THEN { input.bible[line_num].greek_words[k] :
             k \in DOMAIN input.bible[line_num].greek_words }
    ELSE {}

\* C25: in every result of is_likely_typo, for every word of the text at
\* every place, is_typo and legitimate_variation are not both true,
\* verse_match and area_match are not both true, and a result that is neither
\* a typo nor a variation has no matched form, the similarity 0 and neither
\* scope; the rows written show the same.
C25_FlagsAreConsistent ==
    Running =>
        /\ \A word \in WordsOfLastLine : \A p \in Places :
              \A r \in is_likely_typo(word, p[1], p[2], p[3]) : ConsistentResult(r)
        /\ \A i \in DOMAIN missing_words : ConsistentRow(missing_words[i])

\* the run has reported a typo, a variation, and a word that is neither, in
\* the verse, in the area and in the corpus
C25_Witness ==
    /\ pc = "done"
    /\ \E i \in DOMAIN missing_words :
          missing_words[i].is_typo /\ missing_words[i].verse_match
    /\ \E i \in DOMAIN missing_words :
          missing_words[i].is_typo /\ missing_words[i].area_match
    /\ \E i \in DOMAIN missing_words :
          missing_words[i].is_typo /\ CorpusScope(missing_words[i])
    /\ \E i \in DOMAIN missing_words : missing_words[i].legitimate_variation
    /\ \E i \in DOMAIN missing_words :
          /\ input.check_typos
          /\ ~missing_words[i].is_typo /\ ~missing_words[i].legitimate_variation

(***************************************************************************)
(* The data the scoped search needs.                                       *)
(***************************************************************************)
PlaceSet(e) == RowBook(e) \notin {NoneBook, ""} /\ RowChapter(e) # 0 /\ RowVerse(e) # 0

RahlfsIndexed ==
    RAHLFS_WORDS_DICT # <<>> /\ RAHLFS_VERSE_MAP # <<>> /\ RAHLFS_SORTED_VERSES # <<>>

SweteIndexed ==
    SWETE_WORDS_DICT # <<>> /\ SWETE_VERSE_MAP # <<>> /\ SWETE_SORTED_VERSES # <<>>

\* the verse of the row in the edition that is indexed has a match for the word
MatchInOneEdition(e) ==
    \/ /\ SweteIndexed /\ ~RowSweteRef(e).raised
       /\ \/ has_legitimate_variation_in_verse(e.word, SweteVerse(e)).found
          \/ find_typo(e.word, SweteVerse(e)).found
    \/ /\ RahlfsIndexed /\ ~RowRahlfsRef(e).raised
       /\ \/ has_legitimate_variation_in_verse(e.word, RahlfsVerse(e)).found
          \/ find_typo(e.word, RahlfsVerse(e)).found

\* C26: a result has a verse or area scope only for a word with book, chapter
\* and verse set and with the word-ID map, the versification map and the
\* sorted verses of both editions not empty; when one of them is empty for
\* either edition, or the place is not set, the result of every word is that
\* of the typo test on the corpus, also when the other edition has the verse.
C26_ScopesNeedBothEditions ==
    Running =>
        \A i \in DOMAIN missing_words :
            /\ (missing_words[i].verse_match \/ missing_words[i].area_match) =>
                  PlaceSet(missing_words[i]) /\ RahlfsIndexed /\ SweteIndexed
            /\ (input.check_typos
                /\ ~(PlaceSet(missing_words[i]) /\ RahlfsIndexed /\ SweteIndexed)) =>
                  /\ Outcomes(missing_words[i]) = BroadSearch(missing_words[i].word)
                  /\ CorpusScope(missing_words[i])
                  /\ missing_words[i].is_typo = TypoInCorpus(missing_words[i])

\* the index of one edition is empty, the other edition has the verse of a
\* word with a match for it, and the word is reported from the corpus
C26_Witness ==
    /\ pc = "done" /\ input.check_typos
    /\ ~(RahlfsIndexed /\ SweteIndexed)
    /\ \E i \in DOMAIN missing_words :
          /\ PlaceSet(missing_words[i])
          /\ MatchInOneEdition(missing_words[i])
          /\ CorpusScope(missing_words[i])

(***************************************************************************)
(* The compound entries of a range.                                        *)
(***************************************************************************)
KeysOfAdjacent(a, lo, hi) ==
    { NormalizedAt(a, id) : id \in Present(a, lo, hi) }
    \cup { PairKey(a, p) : p \in AdjacentPairs(a, lo, hi) }

\* C27: the map of a range holds the normalized forms of the words of the
\* range and one compound key for each pair of words of the range with
\* adjacent IDs i and i + 1, and nothing else: words at i and i + 2 with no
\* word at i + 1 are not combined, and no compound has a word from outside
\* the range.
C27_OnlyAdjacentCompounds ==
    ScopeCall =>
        DictKeys(out) = KeysOfAdjacent(arg, First(fn, arg), Last(fn, arg))

(***************************************************************************)
(* The verse within its area.                                              *)
(***************************************************************************)
VerseOfCall ==
    get_verse_words(arg.verse_ref, arg.verse_map, arg.sorted_verses, arg.words_dict)

\* C28: for every reference and every half-width, every key of
\* get_verse_words(ref) is a key of get_area_words(ref, n) on the same
\* indices.
C28_AreaContainsVerse ==
    fn = "get_area_words" => DictKeys(VerseOfCall) \subseteq DictKeys(out)

\* an area of half-width 1 or more that holds the words of its verse, a
\* compound among them, and more
C28_Witness ==
    /\ AreaCall
    /\ arg.verse_range > 0
    /\ \E p \in Neighbours(arg, VerseFirst(arg), VerseLast(arg)) :
          PairKey(arg, p) \in DictKeys(VerseOfCall)
    /\ DictKeys(out) \ DictKeys(VerseOfCall) # {}

(***************************************************************************)
(* A word that is a key of its verse.                                      *)
(***************************************************************************)
VerseKeysOf(e) == DictKeys(RahlfsVerse(e)) \cup DictKeys(SweteVerse(e))

\* the keys of the verse that equal the word when both are normalized for
\* comparison
SameAsWord(e) ==
    { key \in VerseKeysOf(e) :
        normalize_for_comparison(key) = normalize_for_comparison(Normalized(e.word)) }

OriginalsInVerse(e, key) ==
    (IF DictHas(RahlfsVerse(e), key) THEN {DictGet(RahlfsVerse(e), key)} ELSE {})
    \cup (IF DictHas(SweteVerse(e), key) THEN {DictGet(SweteVerse(e), key)} ELSE {})

VariationOfVerse(r) ==
    ~r.is_typo /\ r.legitimate_variation /\ r.verse_match /\ ~r.area_match

\* C29: a word that is not known and whose normalized form, normalized for
\* comparison, equals a key of its verse normalized for comparison (a
\* compound of two words, say) is reported as a variation of the verse with
\* the similarity 1.0 and not as a typo; the list of generate_variation_list
\* has the word's normalized form.
C29_KeyOfVerseIsVariation ==
    Running =>
        /\ \A word \in WordsOfLastLine :
              /\ Normalized(word) = strip_accents(lower(word))
              /\ Normalized(word) \in generate_variation_list(word, "all")
        /\ \A i \in LastRows :
              (Scoped(missing_words[i]) /\ SameAsWord(missing_words[i]) # {}) =>
                  /\ VariationOfVerse(missing_words[i])
                  /\ missing_words[i].similarity = Format2(One)
                  /\ \A r \in Outcomes(missing_words[i]) :
                        VariationOfVerse(r) /\ r.similarity = One

\* a word that is the compound of two words of its verse, and a word that is
\* a compound only when ς is folded to σ, each reported as a variation of
\* the verse with the two words of the compound
C29_Witness ==
    /\ pc = "done"
    /\ \E i \in DOMAIN missing_words :
          /\ Scoped(missing_words[i])
          /\ Normalized(missing_words[i].word) \in SameAsWord(missing_words[i])
          /\ VariationOfVerse(missing_words[i])
          /\ missing_words[i].closest_match
                \in OriginalsInVerse(missing_words[i], Normalized(missing_words[i].word))
          /\ Contains(missing_words[i].closest_match, <<" ">>)
    /\ \E i \in DOMAIN missing_words :
          /\ Scoped(missing_words[i])
          /\ SameAsWord(missing_words[i]) # {}
          /\ Normalized(missing_words[i].word) \notin VerseKeysOf(missing_words[i])
          /\ VariationOfVerse(missing_words[i])
          /\ Contains(missing_words[i].closest_match, <<" ">>)

(***************************************************************************)
(* The place after a book heading.                                         *)
(***************************************************************************)
\* the line of the last book heading up to line n, 0 without one
LastBookLine(n) ==
    IF \E m \in 1..n : BookLine(m)
    THEN CHOOSE m \in 1..n : BookLine(m) /\ \A k \in (m + 1)..n : ~BookLine(k)
    ELSE 0

\* the lines with a chapter marker, and with a chapter or verse marker, since
\* the last book heading
ChapterLinesSince(n) ==
    { m \in (LastBookLine(n) + 1)..n : input.bible[m].chapter # 0 }

MarkerLinesSince(n) ==
    { m \in (LastBookLine(n) + 1)..n :
        input.bible[m].chapter # 0 \/ input.bible[m].verse # 0 }

\* the chapter and the verse are those of markers of the current book
FromThisBook(n, chapter, verse) ==
    /\ chapter # 0 => \E m \in ChapterLinesSince(n) :
                         /\ input.bible[m].chapter = chapter
                         /\ \A k \in ChapterLinesSince(n) : k <= m
    /\ verse # 0 => \E m \in MarkerLinesSince(n) :
                       /\ \A k \in MarkerLinesSince(n) : k <= m
                       /\ verse = IF input.bible[m].verse # 0 THEN input.bible[m].verse ELSE 1

AfterHeading(n) == LastBookLine(n) > 0 /\ ChapterLinesSince(n) = {}

\* the row is what the search of the corpus gives for its word
MatchedWithoutContext(e) ==
    /\ ~e.verse_match /\ ~e.area_match /\ ~e.legitimate_variation
    /\ input.check_typos =>
          \E r \in BroadSearch(e.word) :
              /\ e.is_typo = r.is_typo
              /\ e.closest_match = (IF Truthy(r.closest_match) THEN r.closest_match ELSE <<>>)

\* C30: a \biblebook line leaves the chapter and the verse unset and a chapter
\* marker sets the verse to 1 (a verse marker of the same line sets it after
\* that); the chapter and the verse of the loop and of every row are those of
\* markers read since the last book heading, never of an earlier book; and a
\* word read after a book heading and before the first chapter marker has a
\* row with the reference Unknown and the result of the search of the corpus.
C30_PlaceResetByBook ==
    Running =>
        /\ (line_num >= 1 /\ BookLine(line_num)) =>
              /\ current_book = input.bible[line_num].book
              /\ current_chapter = 0 /\ current_verse = 0
        /\ (line_num >= 1 /\ ~BookLine(line_num) /\ input.bible[line_num].chapter # 0) =>
              /\ current_chapter = input.bible[line_num].chapter
              /\ current_verse = IF input.bible[line_num].verse # 0
                                 THEN input.bible[line_num].verse ELSE 1
        /\ FromThisBook(line_num, current_chapter, current_verse)
        /\ \A i \in DOMAIN missing_words :
              /\ HasContext(missing_words[i]) =>
                    /\ RowBook(missing_words[i])
                          = input.bible[LastBookLine(missing_words[i].line_num)].book
                    /\ RowChapter(missing_words[i]) # 0 /\ RowVerse(missing_words[i]) # 0
                    /\ FromThisBook(missing_words[i].line_num, RowChapter(missing_words[i]),
                                    RowVerse(missing_words[i]))
              /\ AfterHeading(missing_words[i].line_num) =>
                    /\ missing_words[i].verse_ref = <<"Unknown">>
                    /\ MatchedWithoutContext(missing_words[i])

\* a word read after the heading of a book and before its first chapter
\* marker, while the book before had a chapter and a verse: its row has the
\* reference Unknown
C30_Witness ==
    /\ Running
    /\ \E i \in DOMAIN missing_words :
          /\ AfterHeading(missing_words[i].line_num)
          /\ ChapterLinesSince(LastBookLine(missing_words[i].line_num) - 1) # {}
          /\ missing_words[i].verse_ref = <<"Unknown">>
          /\ MatchedWithoutContext(missing_words[i])

====
